---- MODULE Spec2Model ----
(***************************************************************************)
(* Kinship: the circle/membership service, the status service and the      *)
(* service worker's offline queue, modelled from the route handlers and    *)
(* the worker script.  Every store query of a handler is one atomic step;  *)
(* a handler's steps interleave with the steps of the other requests.      *)
(***************************************************************************)
EXTENDS Integers, Sequences, FiniteSets, TLC

\* ------------------------------------------------------------------ bounds
\* cap on circle rows
MaxCircles == 1
\* membership requests of one behaviour, numbered in order of arrival; all of
\* them can be in flight at the same time
NumReq == 2

\* ------------------------------------------------------- program constants
\* "Enforce Circle of 5 (including owner)"
CircleLimit == 5

\* profile rows present before the first request (ids 1..NumProfiles): enough
\* of them to fill a circle and have one more candidate
NumProfiles == CircleLimit + 1

\* status requests (POST and GET /api/status) of one behaviour
NumStatusReq == 2
\* status rows present before the first status request
MaxStatuses == 1
\* the clock advances in steps of TickHours up to MaxClock hours
TickHours == 24
MaxClock == 72

\* "statuses from the last 48 hours"
WindowHours == 48
\* note: z.string().trim().max(240)
NoteMax == 240
\* batteryPct: z.number().min(0).max(100)
BatteryMin == 0
BatteryMax == 100

\* POST /api/status requests the service worker intercepts in one behaviour
NumPosts == 2
\* flush passes that can be in progress at the same time
NumPasses == 2
\* the store's delete can fail while statuses has fewer rows than this
MaxRows == 2
\* SMS webhook requests of one behaviour
NumSms == 2
\* fetch events other than status submissions in one behaviour
NumGets == 2
\* the site's content is deployed anew at most this many times
MaxSite == 1
\* POST /api/auth/verify-link requests of one behaviour
NumVerify == 2
\* checkRateLimit calls counted by one store entry before the model stops
\* calling for that identifier
MaxCount == 12
\* the rate limiter's clock advances in steps of MinuteStep up to MaxMinute
MinuteStep == 5
MaxMinute == 20
\* POST /api/sms/pin requests of one behaviour
NumPin == 2
\* POST /api/auth/send-link requests of one behaviour
NumSend == 2

VARIABLES
  profiles,        \* table profiles: set of [id, email, phone]
  circles,         \* table circles: set of [id, owner_id]
  circle_members,  \* table circle_members: set of [circle_id, member_id, role]
  req,             \* membership requests: request -> position and handler locals
  statuses,        \* table statuses: rows in insertion order (id = position)
  now,             \* the clock, in hours: Date.now() and the store's now()
  sreq,            \* status requests: request -> position and handler locals
  sms,             \* SMS webhook requests: request -> position and handler locals
  net,             \* "up" or "down": whether fetch reaches the server
  queue,           \* object store "status": set of [id, body, url, createdAt]
  post,            \* handleStatusPost calls: call -> position and locals
  pass,            \* flushQueue calls: slot -> position, records read, attempts
  syncPending,     \* a "kinship-flush-status" sync registration awaits its event
  msgPending,      \* a KINSHIP_FLUSH_QUEUE message awaits its event
  syncSupported,   \* whether self.registration.sync exists in this browser
  cache,           \* cache "kinship-shell-v1": url -> versions stored ({} or {v})
  gets,            \* other fetch events: event -> position and handler locals
  site,            \* the version of the content the server currently serves
  magic_links,     \* table magic_links: set of [id, token, user_id, expires_at, consumed_at]
  vreq,            \* verify-link requests: request -> position and handler locals
  store,           \* the rate limiter's store: identifier -> {} or {[count, resetTime]}
  clock,           \* Date.now() of the rate limiter, in minutes
  usage,           \* per identifier and config: what the calls of the open window returned
  rcall,           \* the last checkRateLimit call and its result
  sms_triggers,    \* table sms_triggers: set of [user_id, pin_code]
  preq,            \* PIN requests: request -> position and handler locals
  ereq,            \* send-link requests: request -> position and response
  production       \* process.env.NODE_ENV === "production"

circleVars == <<profiles, circles, circle_members, req>>
statusVars == <<statuses, now, sreq, sms>>
swVars == <<net, queue, post, pass, syncPending, msgPending, syncSupported,
           cache, gets, site>>
authVars == <<magic_links, vreq, store, clock, usage, rcall, sms_triggers, preq,
             ereq, production>>
vars == <<circleVars, statusVars, swVars, authVars>>
\* what the membership handlers never touch
notCircle == <<statusVars, swVars, authVars>>
\* what the status handlers never touch
notStatus == <<profiles, circles, req, sms, swVars, authVars>>
\* what the worker's queue handlers and the requests they send never touch
notWorker == <<profiles, circles, circle_members, req, now, sreq, sms,
              syncSupported, cache, gets, site, authVars>>
\* what cacheFirst and the requests the worker lets pass never touch
notCache == <<circleVars, statusVars, net, queue, post, pass, syncPending,
             msgPending, syncSupported, authVars>>

ReqIds == 1..NumReq
\* invite-by-contact creates profile rows: each request can add one to the
\* rows present
MaxProfiles == NumProfiles + NumReq
ProfileIds == 1..MaxProfiles
CircleIds == 1..MaxCircles
\* the phone of the last profile row, and a phone no profile row has
Phones == {"known", "new"}
NoPhone == "none"
\* the email of profile 1, and an email no profile row has
Emails == {"known@mail", "new@mail"}
NoEmail == "none"
\* the profiles that ask for a new circle, and the profiles that send add
\* and remove requests: an owner-to-be and one other profile
Creators == {1, 2}
Requesters == {1, 2}
StatusReqIds == 1..NumStatusReq
SmsIds == 1..NumSms
StatusKinds == {"safe", "help", "unknown"}
\* an optional number is the set of its values: {} when absent or null
NoLocation == [tag |-> "absent", lat |-> {}, lng |-> {}, accuracy |-> {}]
NullLocation == [tag |-> "null", lat |-> {}, lng |-> {}, accuracy |-> {}]
Location(lat, lng, acc) == [tag |-> "obj", lat |-> {lat}, lng |-> {lng}, accuracy |-> acc]
NoBody == [userId |-> 0, circleId |-> 0, status |-> "none", note |-> {},
           batteryPct |-> {}, location |-> NoLocation]
NoEntry == [id |-> 0, status |-> "none", note |-> {}, updatedAt |-> 0,
            location |-> NullLocation, batteryPct |-> {}]
NoAck == [ackId |-> 0, receivedAt |-> 0, queued |-> FALSE, statusId |-> 0,
          entry |-> NoEntry]
StatusIdle == [pc |-> "idle", kind |-> "none", body |-> NoBody, user |-> 0,
               circle |-> 0, result |-> "none", ack |-> NoAck, resp |-> <<>>]
\* parts is the split text, memberships the circle ids the handler read,
\* rows the ids of the rows it inserted
SmsIdle == [pc |-> "idle", parts |-> <<>>, from |-> 0, command |-> "none",
            pin |-> "", lat |-> {}, lng |-> {}, user |-> 0,
            memberships |-> {}, result |-> "none", rows |-> {}]
PostIds == 1..NumPosts
PassIds == 1..NumPasses
NoText == [kind |-> "none", layout |-> "none", value |-> NoBody]
\* rec is the key of the record the call put and nth its place among the
\* puts; resp is the status of the response, keys the field names of its body
PostIdle == [pc |-> "idle", method |-> "none", text |-> NoText, url |-> "none",
             rec |-> 0, nth |-> 0, resp |-> "none", keys |-> {},
             queued |-> FALSE]
\* one attempt of flushQueue: the request sent and what came of it
NoAttempt == [id |-> 0, url |-> "none", text |-> NoText, res |-> "none"]
\* a flushQueue call: the records still to attempt, the ids of the records
\* whose attempt failed, and the last attempt; while the call runs, snap is
\* the result of getAll and tried the ids of the records attempted so far
PassIdle == [pc |-> "idle", todo |-> <<>>, kept |-> {}, last |-> NoAttempt,
             snap |-> <<>>, tried |-> <<>>]
GetIds == 1..NumGets
\* the urls a GET of the page can name: the shell, a listing, another origin
GetUrls == {"/", "/api/status?circleId=1", "https://cdn.example/x.js"}
\* a response: where it came from and the version of its content
NoResponse == [from |-> "none", version |-> 0]
\* route is the branch the fetch listener took, had the cache entry of the
\* url when the event arrived
GetIdle == [pc |-> "idle", method |-> "none", url |-> "none", route |-> "none",
            had |-> {}, resp |-> NoResponse]
\* install: cache.addAll(ASSETS), of which "/" is one
Installed == [u \in GetUrls |-> IF u = "/" THEN {0} ELSE {}]
\* the worker before its first event
WorkerIdle ==
  /\ cache = Installed
  /\ gets = [g \in GetIds |-> GetIdle]
  /\ site = 0
  /\ queue = {}
  /\ post = [p \in PostIds |-> PostIdle]
  /\ pass = [f \in PassIds |-> PassIdle]
  /\ syncPending = FALSE
  /\ msgPending = FALSE

\* the worker while the membership and status services are looked at alone
WorkerOff == WorkerIdle /\ net = "up" /\ syncSupported = TRUE

\* ----------------------------------------- sign-in, PINs and rate limiting
VerifyIds == 1..NumVerify
PinIds == 1..NumPin
SendIds == 1..NumSend
\* "expiresAt = new Date(Date.now() + 24 * 60 * 60 * 1000)", in hours
LinkHours == 24
\* the magic links send-link stored at hour 0, one per user, not yet used
IssuedLinks ==
  {[id |-> 1, token |-> "token-of-user-1", user_id |-> 1,
    expires_at |-> LinkHours, consumed_at |-> {}],
   [id |-> 2, token |-> "token-of-user-2", user_id |-> 2,
    expires_at |-> LinkHours, consumed_at |-> {}]}
\* link is the row the lookup returned, at the hour of the response
VerifyIdle == [pc |-> "idle", token |-> "none", link |-> 0, user |-> 0,
               result |-> "none", at |-> 0]
\* table sms_triggers as POST /api/sms/pin left it: user_id is the key,
\* pin_code a six-digit string, not unique
SmsTriggers ==
  {[user_id |-> 1, pin_code |-> "100012"], [user_id |-> 2, pin_code |-> "111111"],
   [user_id |-> 3, pin_code |-> "333333"], [user_id |-> 4, pin_code |-> "444444"],
   [user_id |-> 5, pin_code |-> "444444"]}
PinIdle == [pc |-> "idle", user |-> 0, newPin |-> "none", existing |-> FALSE,
            result |-> "none", pinCode |-> "none"]
\* a response body: details is the set holding the details field, if any
NoBodyJson == [error |-> "none", details |-> {}]
SendIdle == [pc |-> "idle", route |-> "none", email |-> "none", user |-> 0,
             status |-> "none", body |-> NoBodyJson]
\* the clients the rate limiter tells apart: getClientIdentifier
Identifiers == {"user:1", "ip:1"}
ConfigNames == {"AUTH", "PROFILE"}
NoUsage == [allowed |-> 0, denied |-> FALSE]
\* opened tells that the call opened a window
NoCall == [identifier |-> "none", config |-> "none", opened |-> FALSE,
           allowed |-> FALSE, remaining |-> 0, resetTime |-> 0]

\* the sign-in tables, the PIN table and the rate limiter before a request
AuthRequests ==
  /\ magic_links = IssuedLinks
  /\ vreq = [r \in VerifyIds |-> VerifyIdle]
  /\ store = [i \in Identifiers |-> {}]
  /\ clock = 0
  /\ usage = [i \in Identifiers |-> [c \in ConfigNames |-> NoUsage]]
  /\ rcall = NoCall
  /\ preq = [r \in PinIds |-> PinIdle]
  /\ ereq = [r \in SendIds |-> SendIdle]

AuthTables == AuthRequests /\ sms_triggers = SmsTriggers

\* a production deployment
AuthIdle == AuthTables /\ production = TRUE

\* requests arrive in the order of their numbers
Arrives(r) == req[r].pc = "idle" /\ \A q \in 1..(r - 1) : req[q].pc # "idle"

Idle == [pc |-> "idle", kind |-> "none", circle |-> 0, member |-> 0,
         phone |-> NoPhone, count |-> 0, result |-> "none"]

\* ------------------------------------------------------------ store reads
ProfileExists(id) == \E p \in profiles : p.id = id
CircleRow(c) == {x \in circles : x.id = c}
MembersOf(c) == {m \in circle_members : m.circle_id = c}
IsMember(c, u) == \E m \in circle_members : m.circle_id = c /\ m.member_id = u
ProfilesByPhone(ph) == {p \in profiles : p.phone = ph}
\* .single(): data only when exactly one row matches
SingleProfileByPhone(ph) ==
  IF Cardinality(ProfilesByPhone(ph)) = 1
  THEN (CHOOSE p \in ProfilesByPhone(ph) : TRUE).id ELSE 0
NextProfileId == Cardinality(profiles) + 1
NextCircleId == Cardinality(circles) + 1

\* the handler of slot r ends with this response
Finish(r, res) == req' = [req EXCEPT ![r].pc = "done", ![r].result = res]
Goto(r, pc) == req' = [req EXCEPT ![r].pc = pc]

\* circle_members.insert: the primary key (circle_id, member_id) rejects a
\* second row of the pair; an accepted insert adds exactly the row
InsertMember(r, c, m, role, ok, bad) ==
  IF IsMember(c, m)
  THEN /\ Finish(r, bad)
       /\ UNCHANGED circle_members
  ELSE /\ circle_members' = circle_members \cup
            {[circle_id |-> c, member_id |-> m, role |-> role]}
       /\ Finish(r, ok)

\* ----------------------------------------------------- POST /api/circles
CreateCircle_Insert(r, userId) ==
  /\ Arrives(r)
  /\ Cardinality(circles) < MaxCircles
  /\ IF ProfileExists(userId)
     THEN /\ circles' = circles \cup {[id |-> NextCircleId, owner_id |-> userId]}
          /\ req' = [req EXCEPT ![r] = [Idle EXCEPT !.pc = "create_owner",
                       !.kind = "create", !.circle = NextCircleId,
                       !.member = userId]]
     ELSE /\ UNCHANGED circles
          /\ req' = [req EXCEPT ![r] = [Idle EXCEPT !.pc = "done",
                       !.kind = "create", !.result = "500"]]
  /\ UNCHANGED <<profiles, circle_members>>
  /\ UNCHANGED notCircle

CreateCircle_Owner(r) ==
  /\ req[r].pc = "create_owner"
  /\ InsertMember(r, req[r].circle, req[r].member, "owner", "201", "500")
  /\ UNCHANGED <<profiles, circles>>
  /\ UNCHANGED notCircle

\* the owner insert comes back with memberError (the database refused or
\* did not carry out the statement): 500, and the circle row stays
CreateCircle_OwnerFails(r) ==
  /\ req[r].pc = "create_owner"
  /\ Finish(r, "500")
  /\ UNCHANGED <<profiles, circles, circle_members>>
  /\ UNCHANGED notCircle

\* ------------------------------------- POST /api/circles/:id/members
\* the lookup without the owner check
AddMember_Lookup_AnyRequester(r, c, requesterId, memberId) ==
  /\ Arrives(r)
  /\ LET base == [Idle EXCEPT !.kind = "add", !.circle = c, !.member = memberId]
     IN IF CircleRow(c) = {}
        THEN req' = [req EXCEPT ![r] = [base EXCEPT !.pc = "done", !.result = "404"]]
        ELSE req' = [req EXCEPT ![r] = [base EXCEPT !.pc = "add_count"]]
  /\ UNCHANGED <<profiles, circles, circle_members>>
  /\ UNCHANGED notCircle

AddMember_Lookup(r, c, requesterId, memberId) ==
  /\ Arrives(r)
  /\ LET base == [Idle EXCEPT !.kind = "add", !.circle = c, !.member = memberId]
     IN IF CircleRow(c) = {}
        THEN req' = [req EXCEPT ![r] = [base EXCEPT !.pc = "done", !.result = "404"]]
        ELSE IF (CHOOSE x \in CircleRow(c) : TRUE).owner_id # requesterId
        THEN req' = [req EXCEPT ![r] = [base EXCEPT !.pc = "done", !.result = "403"]]
        ELSE req' = [req EXCEPT ![r] = [base EXCEPT !.pc = "add_count"]]
  /\ UNCHANGED <<profiles, circles, circle_members>>
  /\ UNCHANGED notCircle

\* the capacity check off by one
AddMember_Count_OffByOne(r) ==
  /\ req[r].pc = "add_count"
  /\ LET members == MembersOf(req[r].circle)
     IN IF Cardinality(members) > CircleLimit
        THEN Finish(r, "400full")
        ELSE IF \E m \in members : m.member_id = req[r].member
        THEN Finish(r, "400already")
        ELSE req' = [req EXCEPT ![r].pc = "add_profile",
                                ![r].count = Cardinality(members)]
  /\ UNCHANGED <<profiles, circles, circle_members>>
  /\ UNCHANGED notCircle

AddMember_Count(r) ==
  /\ req[r].pc = "add_count"
  /\ LET members == MembersOf(req[r].circle)
     IN IF Cardinality(members) >= CircleLimit
        THEN Finish(r, "400full")
        ELSE IF \E m \in members : m.member_id = req[r].member
        THEN Finish(r, "400already")
        ELSE req' = [req EXCEPT ![r].pc = "add_profile",
                                ![r].count = Cardinality(members)]
  /\ UNCHANGED <<profiles, circles, circle_members>>
  /\ UNCHANGED notCircle

AddMember_Profile(r) ==
  /\ req[r].pc = "add_profile"
  /\ IF ProfileExists(req[r].member)
     THEN Goto(r, "add_insert")
     ELSE Finish(r, "404")
  /\ UNCHANGED <<profiles, circles, circle_members>>
  /\ UNCHANGED notCircle

AddMember_Insert(r) ==
  /\ req[r].pc = "add_insert"
  /\ InsertMember(r, req[r].circle, req[r].member, "member", "201", "500")
  /\ UNCHANGED <<profiles, circles>>
  /\ UNCHANGED notCircle

\* ------------------------------ POST /api/circles/:id/members/invite
Invite_Lookup(r, c, phone) ==
  /\ Arrives(r)
  /\ LET base == [Idle EXCEPT !.kind = "invite", !.circle = c, !.phone = phone]
     IN IF CircleRow(c) = {}
        THEN req' = [req EXCEPT ![r] = [base EXCEPT !.pc = "done", !.result = "404"]]
        ELSE req' = [req EXCEPT ![r] = [base EXCEPT !.pc = "inv_count"]]
  /\ UNCHANGED <<profiles, circles, circle_members>>
  /\ UNCHANGED notCircle

Invite_Count(r) ==
  /\ req[r].pc = "inv_count"
  /\ IF Cardinality(MembersOf(req[r].circle)) >= CircleLimit
     THEN Finish(r, "400full")
     ELSE req' = [req EXCEPT ![r].pc = "inv_find",
                             ![r].count = Cardinality(MembersOf(req[r].circle))]
  /\ UNCHANGED <<profiles, circles, circle_members>>
  /\ UNCHANGED notCircle

Invite_Find(r) ==
  /\ req[r].pc = "inv_find"
  /\ IF SingleProfileByPhone(req[r].phone) # 0
     THEN req' = [req EXCEPT ![r].pc = "inv_check",
                             ![r].member = SingleProfileByPhone(req[r].phone)]
     ELSE Goto(r, "inv_create")
  /\ UNCHANGED <<profiles, circles, circle_members>>
  /\ UNCHANGED notCircle

Invite_Create(r) ==
  /\ req[r].pc = "inv_create"
  /\ Cardinality(profiles) < MaxProfiles
  /\ profiles' = profiles \cup {[id |-> NextProfileId, phone |-> req[r].phone,
                               email |-> NoEmail]}
  /\ req' = [req EXCEPT ![r].pc = "inv_check", ![r].member = NextProfileId]
  /\ UNCHANGED <<circles, circle_members>>
  /\ UNCHANGED notCircle

Invite_Check(r) ==
  /\ req[r].pc = "inv_check"
  /\ IF IsMember(req[r].circle, req[r].member)
     THEN Finish(r, "400already")
     ELSE Goto(r, "inv_insert")
  /\ UNCHANGED <<profiles, circles, circle_members>>
  /\ UNCHANGED notCircle

Invite_Insert(r) ==
  /\ req[r].pc = "inv_insert"
  /\ InsertMember(r, req[r].circle, req[r].member, "member", "201", "500")
  /\ UNCHANGED <<profiles, circles>>
  /\ UNCHANGED notCircle

\* ------------------------------------ DELETE /api/circles/:id/members
\* only the owner may remove
Remove_Lookup_OwnerOnly(r, c, requesterId, memberId) ==
  /\ Arrives(r)
  /\ LET base == [Idle EXCEPT !.kind = "remove", !.circle = c, !.member = memberId]
     IN IF CircleRow(c) = {}
        THEN req' = [req EXCEPT ![r] = [base EXCEPT !.pc = "done", !.result = "404"]]
        ELSE IF (CHOOSE x \in CircleRow(c) : TRUE).owner_id # requesterId
        THEN req' = [req EXCEPT ![r] = [base EXCEPT !.pc = "done", !.result = "403"]]
        ELSE req' = [req EXCEPT ![r] = [base EXCEPT !.pc = "rm_delete"]]
  /\ UNCHANGED <<profiles, circles, circle_members>>
  /\ UNCHANGED notCircle

Remove_Lookup(r, c, requesterId, memberId) ==
  /\ Arrives(r)
  /\ LET base == [Idle EXCEPT !.kind = "remove", !.circle = c, !.member = memberId]
     IN IF CircleRow(c) = {}
        THEN req' = [req EXCEPT ![r] = [base EXCEPT !.pc = "done", !.result = "404"]]
        ELSE IF (CHOOSE x \in CircleRow(c) : TRUE).owner_id # requesterId
                /\ requesterId # memberId
        THEN req' = [req EXCEPT ![r] = [base EXCEPT !.pc = "done", !.result = "403"]]
        ELSE req' = [req EXCEPT ![r] = [base EXCEPT !.pc = "rm_delete"]]
  /\ UNCHANGED <<profiles, circles, circle_members>>
  /\ UNCHANGED notCircle

Remove_Delete(r) ==
  /\ req[r].pc = "rm_delete"
  /\ circle_members' = {m \in circle_members :
        ~(m.circle_id = req[r].circle /\ m.member_id = req[r].member)}
  /\ Finish(r, "200")
  /\ UNCHANGED <<profiles, circles>>
  /\ UNCHANGED notCircle

\* the store after k - 1 direct adds to the circle profile 1 created
\* (k = 0: before any circle was created)
StoreAfter(k) ==
  /\ profiles = {[id |-> i, email |-> IF i = 1 THEN "known@mail" ELSE NoEmail,
                  phone |-> IF i = NumProfiles THEN "known" ELSE NoPhone]
                   : i \in 1..NumProfiles}
  /\ circles = IF k = 0 THEN {} ELSE {[id |-> 1, owner_id |-> 1]}
  /\ circle_members = {[circle_id |-> 1, member_id |-> i,
                        role |-> IF i = 1 THEN "owner" ELSE "member"] : i \in 1..k}

\* ================================================================ statuses
\* x || null on a number or a string length: 0 and "" are falsy
OrNull(S) == {x \in S : x # 0}
Truthy(S) == \E x \in S : x # 0
\* a note is [len, pad]: len characters, pad of them leading or trailing
\* whitespace that z.string().trim() removes
TrimmedLen(n) == n.len - n.pad

\* bodySchema.safeParse(body).success
SchemaAccepts(b) ==
  /\ b.status \in StatusKinds
  /\ \A n \in b.note : TrimmedLen(n) <= NoteMax
  /\ \A x \in b.batteryPct : BatteryMin <= x /\ x <= BatteryMax
  /\ b.location.tag \in {"absent", "null", "obj"}

\* parsed.data: the note trimmed
ParsedNote(b) == {TrimmedLen(n) : n \in b.note}

\* the row POST /api/status inserts; id and created_at are the store's defaults
StatusRow(b, id, t) ==
  [id |-> id, user_id |-> b.userId, circle_id |-> b.circleId,
   status |-> b.status,
   note |-> OrNull(ParsedNote(b)),
   lat |-> OrNull(b.location.lat),
   lng |-> OrNull(b.location.lng),
   accuracy_m |-> OrNull(b.location.accuracy),
   battery_pct |-> OrNull(b.batteryPct),
   created_at |-> t]

\* the acknowledgement marked as queued
StatusAck_Queued(b, row) ==
  [ackId |-> row.id, receivedAt |-> row.created_at, queued |-> TRUE,
   statusId |-> row.id,
   entry |-> [id |-> b.userId, status |-> b.status, note |-> ParsedNote(b),
              updatedAt |-> row.created_at,
              location |-> IF b.location.tag = "obj" THEN b.location
                           ELSE NullLocation,
              batteryPct |-> b.batteryPct]]

\* the acknowledgement of POST /api/status
StatusAck(b, row) ==
  [ackId |-> row.id, receivedAt |-> row.created_at, queued |-> FALSE,
   statusId |-> row.id,
   entry |-> [id |-> b.userId, status |-> b.status, note |-> ParsedNote(b),
              updatedAt |-> row.created_at,
              location |-> IF b.location.tag = "obj" THEN b.location
                           ELSE NullLocation,
              batteryPct |-> b.batteryPct]]

StatusStarts(r) == sreq[r].pc = "idle" /\ \A q \in 1..(r - 1) : sreq[q].pc # "idle"
StatusFinish(r, res) == sreq' = [sreq EXCEPT ![r].pc = "done", ![r].result = res]

\* the membership check left out
PostStatus_Check_NoAuth(r, b) ==
  /\ StatusStarts(r)
  /\ LET base == [StatusIdle EXCEPT !.kind = "post", !.body = b]
     IN IF ~SchemaAccepts(b)
        THEN sreq' = [sreq EXCEPT ![r] = [base EXCEPT !.pc = "done", !.result = "400"]]
        ELSE sreq' = [sreq EXCEPT ![r] = [base EXCEPT !.pc = "post_insert"]]
  /\ UNCHANGED <<statuses, now, circle_members>>
  /\ UNCHANGED notStatus

\* ----------------------------------------------------- POST /api/status
PostStatus_Check(r, b) ==
  /\ StatusStarts(r)
  /\ LET base == [StatusIdle EXCEPT !.kind = "post", !.body = b]
     IN IF ~SchemaAccepts(b)
        THEN sreq' = [sreq EXCEPT ![r] = [base EXCEPT !.pc = "done", !.result = "400"]]
        ELSE IF ~IsMember(b.circleId, b.userId)
        THEN sreq' = [sreq EXCEPT ![r] = [base EXCEPT !.pc = "done", !.result = "403"]]
        ELSE sreq' = [sreq EXCEPT ![r] = [base EXCEPT !.pc = "post_insert"]]
  /\ UNCHANGED <<statuses, now, circle_members>>
  /\ UNCHANGED notStatus

PostStatus_Insert(r) ==
  /\ sreq[r].pc = "post_insert"
  /\ LET row == StatusRow(sreq[r].body, Len(statuses) + 1, now)
     IN /\ statuses' = Append(statuses, row)
        /\ sreq' = [sreq EXCEPT ![r].pc = "done", ![r].result = "201",
                                ![r].ack = StatusAck(sreq[r].body, row)]
  /\ UNCHANGED <<now, circle_members>>
  /\ UNCHANGED notStatus

\* ------------------------------------------------------ GET /api/status
\* the query without the created_at filter
WindowRows_AllTime(c, t) ==
  {i \in 1..Len(statuses) : statuses[i].circle_id = c}

\* the ids of the rows the statuses query selects: .eq("circle_id", circleId)
\* .gte("created_at", fortyEightHoursAgo)
WindowRows(c, t) ==
  {i \in 1..Len(statuses) :
     /\ statuses[i].circle_id = c
     /\ statuses[i].created_at >= t - WindowHours}

\* the rows ordered oldest first
AscOrders(S) ==
  {o \in [1..Cardinality(S) -> S] :
     /\ \A i, j \in 1..Cardinality(S) : i # j => o[i] # o[j]
     /\ \A i, j \in 1..Cardinality(S) :
          i < j => statuses[o[i]].created_at <= statuses[o[j]].created_at}

\* .order("created_at", { ascending: false }): every order of the selected
\* rows in which created_at never increases (the store breaks ties as it likes)
DescOrders(S) ==
  {o \in [1..Cardinality(S) -> S] :
     /\ \A i, j \in 1..Cardinality(S) : i # j => o[i] # o[j]
     /\ \A i, j \in 1..Cardinality(S) :
          i < j => statuses[o[i]].created_at >= statuses[o[j]].created_at}

\* latestByUser: the first row of each user_id, in the order of the query
RECURSIVE LatestByUser(_, _)
LatestByUser(order, seen) ==
  IF order = <<>> THEN <<>>
  ELSE IF statuses[Head(order)].user_id \in seen
       THEN LatestByUser(Tail(order), seen)
       ELSE <<Head(order)>> \o
            LatestByUser(Tail(order), seen \cup {statuses[Head(order)].user_id})

\* one element of the response's circle array
StatusEntry(row, userId) ==
  [id |-> row.user_id, status |-> row.status, updatedAt |-> row.created_at,
   note |-> row.note,
   location |-> IF Truthy(row.lat) /\ Truthy(row.lng)
                THEN [tag |-> "obj", lat |-> row.lat, lng |-> row.lng,
                      accuracy |-> row.accuracy_m]
                ELSE NullLocation,
   batteryPct |-> row.battery_pct,
   isYou |-> row.user_id = userId]

\* the listing without the membership check
GetStatus_Check_NoAuth(r, c, u) ==
  /\ StatusStarts(r)
  /\ LET base == [StatusIdle EXCEPT !.kind = "get", !.circle = c, !.user = u]
     IN sreq' = [sreq EXCEPT ![r] = [base EXCEPT !.pc = "get_query"]]
  /\ UNCHANGED <<statuses, now, circle_members>>
  /\ UNCHANGED notStatus

GetStatus_Check(r, c, u) ==
  /\ StatusStarts(r)
  /\ LET base == [StatusIdle EXCEPT !.kind = "get", !.circle = c, !.user = u]
     IN IF ~IsMember(c, u)
        THEN sreq' = [sreq EXCEPT ![r] = [base EXCEPT !.pc = "done", !.result = "403"]]
        ELSE sreq' = [sreq EXCEPT ![r] = [base EXCEPT !.pc = "get_query"]]
  /\ UNCHANGED <<statuses, now, circle_members>>
  /\ UNCHANGED notStatus

GetStatus_Query(r) ==
  /\ sreq[r].pc = "get_query"
  /\ \E order \in DescOrders(WindowRows(sreq[r].circle, now)) :
       LET latest == LatestByUser(order, {})
       IN sreq' = [sreq EXCEPT ![r].pc = "done", ![r].result = "200",
                     ![r].resp = [i \in 1..Len(latest) |->
                                    StatusEntry(statuses[latest[i]], sreq[r].user)]]
  /\ UNCHANGED <<statuses, now, circle_members>>
  /\ UNCHANGED notStatus

\* ------------------------------------------------ POST /api/webhooks/sms
\* toUpperCase of a word of an SMS text
ToUpperCase(w) ==
  CASE w = "safe" -> "SAFE"
    [] w = "Help" -> "HELP"
    [] w = "x,y" -> "X,Y"
    [] OTHER -> w

\* body.trim().toUpperCase().split(/\s+/): a text is the sequence of its
\* words (the empty text splits into one empty word)
SplitUpper(body) ==
  IF body = <<>> THEN <<"">>
  ELSE [i \in 1..Len(body) |-> ToUpperCase(body[i])]

\* parts[2].split(",") with parseFloat of the two pieces; any NaN gives null
ParseCoords(w) ==
  IF w = "1,2" THEN [lat |-> {1}, lng |-> {2}]
  ELSE IF w = "0,0" THEN [lat |-> {0}, lng |-> {0}]
  ELSE [lat |-> {}, lng |-> {}]

\* the command and PIN compared as typed
parseSMSCommand_AsTyped(body) ==
  LET parts == IF body = <<>> THEN <<"">> ELSE body
  IN IF Len(parts) < 2
     THEN [command |-> "none", pin |-> "", lat |-> {}, lng |-> {}]
     ELSE [command |-> IF parts[1] = "SAFE" THEN "safe"
                       ELSE IF parts[1] = "HELP" THEN "help" ELSE "none",
           pin |-> parts[2],
           lat |-> IF Len(parts) >= 3 THEN ParseCoords(parts[3]).lat ELSE {},
           lng |-> IF Len(parts) >= 3 THEN ParseCoords(parts[3]).lng ELSE {}]

parseSMSCommand(body) ==
  LET parts == SplitUpper(body)
  IN IF Len(parts) < 2
     THEN [command |-> "none", pin |-> "", lat |-> {}, lng |-> {}]
     ELSE [command |-> IF parts[1] = "SAFE" THEN "safe"
                       ELSE IF parts[1] = "HELP" THEN "help" ELSE "none",
           pin |-> parts[2],
           lat |-> IF Len(parts) >= 3 THEN ParseCoords(parts[3]).lat ELSE {},
           lng |-> IF Len(parts) >= 3 THEN ParseCoords(parts[3]).lng ELSE {}]

\* .eq("pin_code", pin).single(): a user only when exactly one row matches
TriggersByPin(pin) == {t \in sms_triggers : t.pin_code = pin}
SingleTrigger(pin) ==
  IF Cardinality(TriggersByPin(pin)) = 1
  THEN (CHOOSE t \in TriggersByPin(pin) : TRUE).user_id ELSE 0

\* the orders in which the store can hand back or take the elements of S
Orders(S) ==
  {o \in [1..Cardinality(S) -> S] :
     \A i, j \in 1..Cardinality(S) : i # j => o[i] # o[j]}

\* one element of statusInserts, with the store's defaults id and created_at;
\* from is the length of the sender's number
SmsRow(q, c, id, t) ==
  [id |-> id, user_id |-> q.user, circle_id |-> c, status |-> q.command,
   note |-> {13 + q.from}, lat |-> q.lat, lng |-> q.lng, accuracy_m |-> {},
   battery_pct |-> {}, created_at |-> t]

SmsStarts(r) == sms[r].pc = "idle" /\ \A q \in 1..(r - 1) : sms[q].pc # "idle"
SmsFinish(r, res) == sms' = [sms EXCEPT ![r].pc = "done", ![r].result = res]

\* the text parsed and the PIN looked up
Sms_Lookup(r, body, from) ==
  /\ SmsStarts(r)
  /\ LET p == parseSMSCommand(body)
         base == [SmsIdle EXCEPT !.parts = SplitUpper(body), !.from = from,
                                 !.command = p.command, !.pin = p.pin,
                                 !.lat = p.lat, !.lng = p.lng]
     IN IF p.command = "none" \/ p.pin = ""
        THEN sms' = [sms EXCEPT ![r] = [base EXCEPT !.pc = "done",
                                                    !.result = "format"]]
        ELSE IF SingleTrigger(p.pin) = 0
        THEN sms' = [sms EXCEPT ![r] = [base EXCEPT !.pc = "done",
                                                    !.result = "pin"]]
        ELSE sms' = [sms EXCEPT ![r] = [base EXCEPT !.pc = "sms_members",
                                          !.user = SingleTrigger(p.pin)]]
  /\ UNCHANGED <<statuses, now, sreq, circle_members>>
  /\ UNCHANGED <<profiles, circles, req, swVars, authVars>>

\* the user's circles read
Sms_Members(r) ==
  /\ sms[r].pc = "sms_members"
  /\ LET memberships == {m.circle_id : m \in
                           {x \in circle_members : x.member_id = sms[r].user}}
     IN IF memberships = {}
        THEN SmsFinish(r, "nocircle")
        ELSE sms' = [sms EXCEPT ![r].pc = "sms_insert",
                                ![r].memberships = memberships]
  /\ UNCHANGED <<statuses, now, sreq, circle_members>>
  /\ UNCHANGED <<profiles, circles, req, swVars, authVars>>

\* the statement replacing the user's earlier rows
Sms_Insert_Overwrites(r) ==
  /\ sms[r].pc = "sms_insert"
  /\ \E order \in Orders(sms[r].memberships) :
       LET kept == SelectSeq(statuses, LAMBDA x : x.user_id # sms[r].user)
           n == Len(kept)
           new == [i \in 1..Len(order) |-> SmsRow(sms[r], order[i], n + i, now)]
       IN /\ statuses' = kept \o new
          /\ sms' = [sms EXCEPT ![r].pc = "done", ![r].result = "updated",
                                ![r].rows = (n + 1)..(n + Len(order))]
  /\ UNCHANGED <<now, sreq, circle_members>>
  /\ UNCHANGED <<profiles, circles, req, swVars, authVars>>

\* supabase.from("statuses").insert(statusInserts): one statement, one row
\* for each circle read
Sms_Insert(r) ==
  /\ sms[r].pc = "sms_insert"
  /\ \E order \in Orders(sms[r].memberships) :
       LET n == Len(statuses)
           new == [i \in 1..Len(order) |-> SmsRow(sms[r], order[i], n + i, now)]
       IN /\ statuses' = statuses \o new
          /\ sms' = [sms EXCEPT ![r].pc = "done", ![r].result = "updated",
                                ![r].rows = (n + 1)..(n + Len(order))]
  /\ UNCHANGED <<now, sreq, circle_members>>
  /\ UNCHANGED <<profiles, circles, req, swVars, authVars>>

\* the statement comes back with insertError: no row is added
Sms_InsertFails(r) ==
  /\ sms[r].pc = "sms_insert"
  /\ SmsFinish(r, "failed")
  /\ UNCHANGED <<statuses, now, sreq, circle_members>>
  /\ UNCHANGED <<profiles, circles, req, swVars, authVars>>

\* time passes
Tick ==
  /\ now + TickHours <= MaxClock
  /\ now' = now + TickHours
  /\ UNCHANGED <<statuses, sreq, circle_members>>
  /\ UNCHANGED notStatus

InitCircle ==
  /\ \E k \in {0, CircleLimit - 1, CircleLimit} : StoreAfter(k)
  /\ req = [r \in ReqIds |-> Idle]
  /\ statuses = <<>>
  /\ now = 0
  /\ sreq = [r \in StatusReqIds |-> StatusIdle]
  /\ sms = [r \in SmsIds |-> SmsIdle]
  /\ AuthIdle
  /\ WorkerOff

NextCircle ==
  \/ \E r \in ReqIds, u \in Creators : CreateCircle_Insert(r, u)
  \/ \E r \in ReqIds : CreateCircle_Owner(r)
  \/ \E r \in ReqIds : CreateCircle_OwnerFails(r)
  \/ \E r \in ReqIds, c \in CircleIds, u \in Requesters, m \in ProfileIds :
        AddMember_Lookup(r, c, u, m)
  \/ \E r \in ReqIds : AddMember_Count(r)
  \/ \E r \in ReqIds : AddMember_Profile(r)
  \/ \E r \in ReqIds : AddMember_Insert(r)
  \/ \E r \in ReqIds, c \in CircleIds, ph \in Phones : Invite_Lookup(r, c, ph)
  \/ \E r \in ReqIds : Invite_Count(r)
  \/ \E r \in ReqIds : Invite_Find(r)
  \/ \E r \in ReqIds : Invite_Create(r)
  \/ \E r \in ReqIds : Invite_Check(r)
  \/ \E r \in ReqIds : Invite_Insert(r)
  \/ \E r \in ReqIds, c \in CircleIds, u \in Requesters, m \in ProfileIds :
        Remove_Lookup(r, c, u, m)
  \/ \E r \in ReqIds : Remove_Delete(r)

SpecCircle == InitCircle /\ [][NextCircle]_vars

\* ---------------------------------------------- the status specifications
\* two circles: circle 1 of profile 1 with member 2, circle 2 of profile 2
StatusTables ==
  /\ profiles = {[id |-> i, email |-> IF i = 1 THEN "known@mail" ELSE NoEmail,
                  phone |-> NoPhone] : i \in 1..NumProfiles}
  /\ circles = {[id |-> 1, owner_id |-> 1], [id |-> 2, owner_id |-> 2]}
  /\ circle_members = {[circle_id |-> 1, member_id |-> 1, role |-> "owner"],
                       [circle_id |-> 1, member_id |-> 2, role |-> "member"],
                       [circle_id |-> 2, member_id |-> 2, role |-> "owner"]}
  /\ req = [r \in ReqIds |-> Idle]
  /\ sreq = [r \in StatusReqIds |-> StatusIdle]
  /\ sms = [r \in SmsIds |-> SmsIdle]

StatusStore == StatusTables /\ AuthIdle

StatusUsers == {1, 2, 3}
StatusCircles == {1, 2}
Body(u, c, st) == [NoBody EXCEPT !.userId = u, !.circleId = c, !.status = st]
\* submissions that differ in sender, circle and kind only
SimpleBodies == {Body(u, c, "safe") : u \in StatusUsers, c \in StatusCircles}
                \cup {Body(1, 1, "help")}
\* submissions of member 1 to circle 1 that vary one field each, and one of a
\* profile that is no member
Note(len, pad) == {[len |-> len, pad |-> pad]}
RichBodies ==
  {Body(1, 1, st) : st \in {"help", "bogus"}}
  \cup {Body(3, 1, "safe")}
  \cup {[Body(1, 1, "safe") EXCEPT !.note = n] :
         n \in {Note(0, 0), Note(NoteMax, 0), Note(NoteMax, 1),
                Note(NoteMax + 1, 0), Note(NoteMax + 1, 1)}}
  \cup {[Body(1, 1, "safe") EXCEPT !.batteryPct = {x}] :
         x \in {BatteryMin - 1, BatteryMin, BatteryMax, BatteryMax + 1}}
  \cup {[Body(1, 1, "help") EXCEPT !.location = l] :
         l \in {NullLocation, Location(0, 0, {}), Location(91, 0, {}),
                Location(0 - 91, 0, {}), Location(0, 181, {}),
                Location(0, 0 - 181, {}), Location(90, 180, {5}),
                Location(0 - 90, 0 - 180, {0})}}

\* the stores a few earlier submissions leave: up to MaxStatuses rows of
\* members of circle 1, created at hour 0
RECURSIVE RowsOf(_, _)
RowsOf(bodies, times) ==
  IF bodies = <<>> THEN <<>>
  ELSE LET front == RowsOf(SubSeq(bodies, 1, Len(bodies) - 1),
                          SubSeq(times, 1, Len(times) - 1))
       IN Append(front, StatusRow(bodies[Len(bodies)], Len(bodies), times[Len(times)]))

EarlierBodies == {b \in SimpleBodies : b.userId \in {1, 2} /\ b.circleId = 1}

InitStatus ==
  /\ StatusStore
  /\ WorkerOff
  /\ \E n \in 0..MaxStatuses :
       \E bodies \in [1..n -> EarlierBodies] :
         /\ statuses = RowsOf(bodies, [i \in 1..n |-> 0])
         /\ now = 0

NextStatus ==
  \/ \E r \in StatusReqIds, b \in SimpleBodies : PostStatus_Check(r, b)
  \/ \E r \in StatusReqIds : PostStatus_Insert(r)
  \/ \E r \in StatusReqIds, c \in StatusCircles, u \in StatusUsers :
        GetStatus_Check(r, c, u)
  \/ \E r \in StatusReqIds : GetStatus_Query(r)
  \/ Tick

\* listing the statuses of a circle
SpecStatus == InitStatus /\ [][NextStatus]_vars

InitSubmit ==
  /\ StatusStore
  /\ WorkerOff
  /\ statuses = <<>>
  /\ now = 0

NextSubmit ==
  \/ \E r \in StatusReqIds, b \in RichBodies : PostStatus_Check(r, b)
  \/ \E r \in StatusReqIds : PostStatus_Insert(r)
  \/ \E r \in StatusReqIds, u \in StatusUsers : GetStatus_Check(r, 1, u)
  \/ \E r \in StatusReqIds : GetStatus_Query(r)
  \/ Tick

\* submitting a status
SpecSubmit == InitSubmit /\ [][NextSubmit]_vars

\* SMS texts as word sequences: both commands in several spellings, with
\* and without coordinates, an unknown command, a text with no PIN, the
\* empty text, a PIN of no user, of a user in no circle, and of two users
SmsTexts ==
  {<<"SAFE", "111111">>, <<"safe", "100012">>, <<"Help", "111111", "1,2">>,
   <<"HELP", "100012", "x,y">>, <<"STOP", "111111">>, <<"SAFE">>, <<>>,
   <<"SAFE", "999999">>, <<"SAFE", "333333">>, <<"HELP", "444444">>}
\* lengths of the sender's number: none, and an E.164 number
FromLens == {0, 12}
\* submissions of member 2 to its two circles and of a profile in no circle
MixedBodies == {Body(2, 1, "safe"), Body(2, 2, "help"), Body(3, 1, "safe")}
\* the texts of a member of two circles and of a profile in no circle
MixedTexts == {<<"SAFE", "111111">>, <<"Help", "111111", "1,2">>, <<"SAFE", "333333">>}
\* the profiles a removal is asked for
RemoveTargets == {1, 2}

NextMixed ==
  \/ \E r \in StatusReqIds, b \in MixedBodies : PostStatus_Check(r, b)
  \/ \E r \in StatusReqIds : PostStatus_Insert(r)
  \/ \E r \in StatusReqIds : GetStatus_Check(r, 1, 1)
  \/ \E r \in StatusReqIds : GetStatus_Query(r)
  \/ \E body \in MixedTexts : Sms_Lookup(1, body, 12)
  \/ \E r \in SmsIds : Sms_Members(r)
  \/ \E r \in SmsIds : Sms_Insert(r)
  \/ \E r \in SmsIds : Sms_InsertFails(r)
  \/ \E c \in StatusCircles, u \in Requesters, m \in RemoveTargets :
        Remove_Lookup(1, c, u, m)
  \/ \E r \in ReqIds : Remove_Delete(r)

\* status submissions, listings, SMS commands and removals side by side
SpecMixed == InitStatus /\ [][NextMixed]_vars

NextSms ==
  \/ \E r \in SmsIds, body \in SmsTexts, from \in FromLens :
        Sms_Lookup(r, body, from)
  \/ \E r \in SmsIds : Sms_Members(r)
  \/ \E r \in SmsIds : Sms_Insert(r)
  \/ \E r \in SmsIds : Sms_InsertFails(r)

\* SMS commands alone
SpecSms == InitStatus /\ [][NextSms]_vars

\* ========================================================== service worker
\* crypto.randomUUID(): one key per enqueued record
RecIds == 1..NumPosts

\* a request text: a JSON object, the JSON text null, or a text that is not
\* JSON; layout is the spelling (whitespace, key order) of a JSON text
JsonText(b, layout) == [kind |-> "object", layout |-> layout, value |-> b]
NullText == [kind |-> "null", layout |-> "compact", value |-> NoBody]
RawText == [kind |-> "raw", layout |-> "raw", value |-> NoBody]
\* a parsed value
NullValue == [tag |-> "null", value |-> NoBody]
Undefined == [tag |-> "undefined", value |-> NoBody]

\* request.json(): the value of a JSON text, a throw for any other text
JsonParses(t) == t.kind \in {"object", "null"}
JsonValue(t) == [tag |-> t.kind, value |-> t.value]
\* safeReadJson: null when request.json() throws
safeReadJson(t) == IF JsonParses(t) THEN JsonValue(t) ELSE NullValue
\* JSON.stringify: the compact spelling of the value
JsonStringify(v) ==
  IF v.tag = "object" THEN JsonText(v.value, "compact") ELSE NullText

\* POST /api/status as one step: the status of the response
RoutePost(t) ==
  LET v == IF JsonParses(t) THEN JsonValue(t) ELSE Undefined
  IN IF v.tag # "object" \/ ~SchemaAccepts(v.value) THEN "400"
     ELSE IF ~IsMember(v.value.circleId, v.value.userId) THEN "403"
     ELSE "201"
\* ... and the table after it
RouteRows(t) ==
  IF RoutePost(t) = "201"
  THEN Append(statuses, StatusRow(t.value, Len(statuses) + 1, now))
  ELSE statuses
\* the field names of the JSON body the route answers with
RouteKeys(t) ==
  IF RoutePost(t) = "201"
  THEN {"ackId", "receivedAt", "queued", "statusId", "entry"}
  ELSE IF RoutePost(t) = "400" THEN {"error", "issues"} ELSE {"error"}
\* res.ok
Ok(status) == status \in {"200", "201", "202"}


InQueue(id) == \E rec \in queue : rec.id = id
\* the keys handed out so far
UsedIds == {post[p].rec : p \in PostIds} \ {0}
\* store.getAll(): the records in the order of their keys
getAll ==
  CHOOSE s \in [1..Cardinality(queue) -> queue] :
    \A i, j \in 1..Cardinality(queue) : i < j => s[i].id < s[j].id

PostStarts(p) == post[p].pc = "idle" /\ \A q \in 1..(p - 1) : post[q].pc # "idle"

\* ------------------------------------------------------ the fetch listener
\* new URL(request.url): pathname and origin
Pathname(url) ==
  CASE url = "/api/status?src=widget" -> "/api/status"
    [] url = "/api/status?circleId=1" -> "/api/status"
    [] url = "https://cdn.example/x.js" -> "/x.js"
    [] OTHER -> url
SameOrigin(url) == url # "https://cdn.example/x.js"
\* the listener looking at the path only
Route_AnyMethod(request) ==
  IF Pathname(request.url) = "/api/status"
  THEN "handleStatusPost"
  ELSE IF request.method = "GET" /\ SameOrigin(request.url)
  THEN "cacheFirst"
  ELSE "none"

\* the branch the listener takes for a request; "none": no respondWith, the
\* browser carries the request out itself
Route(request) ==
  IF request.method = "POST" /\ Pathname(request.url) = "/api/status"
  THEN "handleStatusPost"
  ELSE IF request.method = "GET" /\ SameOrigin(request.url)
  THEN "cacheFirst"
  ELSE "none"

\* ------------------------------------------------------- handleStatusPost
\* an answer that is not ok handled like a throw
HandleStatusPost_Fetch_QueueErrors(p, sub) ==
  /\ PostStarts(p)
  /\ Route(sub) = "handleStatusPost"
  /\ IF net = "up" /\ Ok(RoutePost(sub.text))
     THEN /\ post' = [post EXCEPT ![p] = [PostIdle EXCEPT !.pc = "done",
                         !.method = sub.method,
                         !.text = sub.text, !.url = sub.url,
                         !.resp = RoutePost(sub.text),
                         !.keys = RouteKeys(sub.text)]]
          /\ statuses' = RouteRows(sub.text)
     ELSE /\ post' = [post EXCEPT ![p] = [PostIdle EXCEPT !.pc = "enqueue",
                         !.method = sub.method,
                         !.text = sub.text, !.url = sub.url]]
          /\ statuses' = statuses
  /\ UNCHANGED <<net, queue, pass, syncPending, msgPending>>
  /\ UNCHANGED notWorker

\* fetch(request): the response of the route, or a throw when the server is
\* out of reach
HandleStatusPost_Fetch(p, sub) ==
  /\ PostStarts(p)
  /\ Route(sub) = "handleStatusPost"
  /\ IF net = "up"
     THEN /\ post' = [post EXCEPT ![p] = [PostIdle EXCEPT !.pc = "done",
                         !.method = sub.method,
                         !.text = sub.text, !.url = sub.url,
                         !.resp = RoutePost(sub.text),
                         !.keys = RouteKeys(sub.text)]]
          /\ statuses' = RouteRows(sub.text)
     ELSE /\ post' = [post EXCEPT ![p] = [PostIdle EXCEPT !.pc = "enqueue",
                         !.method = sub.method,
                         !.text = sub.text, !.url = sub.url]]
          /\ statuses' = statuses
  /\ UNCHANGED <<net, queue, pass, syncPending, msgPending>>
  /\ UNCHANGED notWorker

\* safeReadJson(clone), then enqueue(body, clone.url): store.put of a record
\* under a new random key
HandleStatusPost_Enqueue(p) ==
  /\ post[p].pc = "enqueue"
  /\ \E id \in RecIds \ UsedIds :
       /\ queue' = {rec \in queue : rec.id # id} \cup
                   {[id |-> id, body |-> safeReadJson(post[p].text),
                     url |-> post[p].url, createdAt |-> now]}
       /\ post' = [post EXCEPT ![p].pc = "register", ![p].rec = id,
                               ![p].nth = Cardinality(UsedIds) + 1]
  /\ UNCHANGED <<net, statuses, pass, syncPending, msgPending>>
  /\ UNCHANGED notWorker

\* indexedDB.open or store.put reports an error: enqueue rejects, and with it
\* handleStatusPost
HandleStatusPost_EnqueueFails(p) ==
  /\ post[p].pc = "enqueue"
  /\ post' = [post EXCEPT ![p].pc = "done", ![p].resp = "error"]
  /\ UNCHANGED <<net, statuses, queue, pass, syncPending, msgPending>>
  /\ UNCHANGED notWorker

\* self.registration.sync?.register(...), then the 202 { queued: true }
HandleStatusPost_Register(p) ==
  /\ post[p].pc = "register"
  /\ syncPending' = (syncPending \/ syncSupported)
  /\ post' = [post EXCEPT ![p].pc = "done", ![p].resp = "202",
                          ![p].keys = {"queued"}, ![p].queued = TRUE]
  /\ UNCHANGED <<net, statuses, queue, pass, msgPending>>
  /\ UNCHANGED notWorker

\* sync.register rejects: handleStatusPost rejects after the record was put
HandleStatusPost_RegisterFails(p) ==
  /\ post[p].pc = "register"
  /\ syncSupported
  /\ post' = [post EXCEPT ![p].pc = "done", ![p].resp = "error"]
  /\ UNCHANGED <<net, statuses, queue, pass, syncPending, msgPending>>
  /\ UNCHANGED notWorker

\* ------------------------------------------------------------- the network
NetDown ==
  /\ net = "up"
  /\ net' = "down"
  /\ UNCHANGED <<statuses, queue, post, pass, syncPending, msgPending>>
  /\ UNCHANGED notWorker

\* the online event without the message to the worker
NetUp_Silent ==
  /\ net = "down"
  /\ net' = "up"
  /\ UNCHANGED <<statuses, queue, post, pass, syncPending, msgPending>>
  /\ UNCHANGED notWorker

\* the page's online listener posts KINSHIP_FLUSH_QUEUE to the worker
NetUp ==
  /\ net = "down"
  /\ net' = "up"
  /\ msgPending' = TRUE
  /\ UNCHANGED <<statuses, queue, post, pass, syncPending>>
  /\ UNCHANGED notWorker

\* -------------------------------------------------------------- flushQueue
\* a flushQueue call takes the first slot that has no call in progress
FreeSlot(f) == pass[f].pc = "idle" /\ \A g \in 1..(f - 1) : pass[g].pc # "idle"
\* const records = await getAll(); with no record the call is over
Started == [PassIdle EXCEPT !.todo = getAll, !.snap = getAll,
                            !.pc = IF queue = {} THEN "idle" ELSE "loop"]
\* the call (its record being p) after the record at the head of todo was
\* dealt with: the next iteration, or the end of the loop
Advance(p) ==
  IF Len(p.todo) = 1
  THEN [p EXCEPT !.pc = "idle", !.todo = <<>>, !.snap = <<>>, !.tried = <<>>]
  ELSE [p EXCEPT !.pc = "loop", !.todo = Tail(@)]

\* the sync event (the browser fires it while the network is reachable)
OnSync(f) ==
  /\ syncPending /\ net = "up"
  /\ FreeSlot(f)
  /\ syncPending' = FALSE
  /\ pass' = [pass EXCEPT ![f] = Started]
  /\ UNCHANGED <<net, statuses, queue, post, msgPending>>
  /\ UNCHANGED notWorker

\* the message event
OnMessage(f) ==
  /\ msgPending
  /\ FreeSlot(f)
  /\ msgPending' = FALSE
  /\ pass' = [pass EXCEPT ![f] = Started]
  /\ UNCHANGED <<net, statuses, queue, post, syncPending>>
  /\ UNCHANGED notWorker

\* an attempt that fails ends the call
Flush_Fetch_Halts(f) ==
  /\ pass[f].pc = "loop"
  /\ LET rec == Head(pass[f].todo)
         text == JsonStringify(rec.body)
         res == IF net = "up" THEN RoutePost(text) ELSE "throw"
         tried == [pass[f] EXCEPT
                     !.last = [id |-> rec.id, url |-> rec.url,
                               text |-> text, res |-> res],
                     !.tried = Append(@, rec.id),
                     !.kept = IF Ok(res) THEN @ ELSE @ \cup {rec.id}]
     IN /\ statuses' = IF net = "up" THEN RouteRows(text) ELSE statuses
        /\ pass' = [pass EXCEPT ![f] =
                      IF Ok(res) THEN [tried EXCEPT !.pc = "delete"]
                      ELSE [tried EXCEPT !.pc = "idle", !.todo = <<>>,
                                         !.snap = <<>>, !.tried = <<>>]]
  /\ UNCHANGED <<net, queue, post, syncPending, msgPending>>
  /\ UNCHANGED notWorker

\* one attempt of the loop: fetch(record.url, { body: JSON.stringify(record.body) })
Flush_Fetch(f) ==
  /\ pass[f].pc = "loop"
  /\ LET rec == Head(pass[f].todo)
         text == JsonStringify(rec.body)
         res == IF net = "up" THEN RoutePost(text) ELSE "throw"
         tried == [pass[f] EXCEPT
                     !.last = [id |-> rec.id, url |-> rec.url,
                               text |-> text, res |-> res],
                     !.tried = Append(@, rec.id),
                     !.kept = IF Ok(res) THEN @ ELSE @ \cup {rec.id}]
     IN /\ statuses' = IF net = "up" THEN RouteRows(text) ELSE statuses
        /\ pass' = [pass EXCEPT ![f] =
                      IF Ok(res) THEN [tried EXCEPT !.pc = "delete"]
                      ELSE Advance(tried)]
  /\ UNCHANGED <<net, queue, post, syncPending, msgPending>>
  /\ UNCHANGED notWorker

\* deleteRecord(record.id) after res.ok
Flush_Delete(f) ==
  /\ pass[f].pc = "delete"
  /\ queue' = {rec \in queue : rec.id # Head(pass[f].todo).id}
  /\ pass' = [pass EXCEPT ![f] = Advance(pass[f])]
  /\ UNCHANGED <<net, statuses, post, syncPending, msgPending>>
  /\ UNCHANGED notWorker

\* deleteRecord rejects (indexedDB.open or store.delete reports an error):
\* the catch of the loop takes it and the record stays
Flush_DeleteFails(f) ==
  /\ pass[f].pc = "delete"
  /\ Len(statuses) < MaxRows
  /\ pass' = [pass EXCEPT ![f] = Advance(pass[f])]
  /\ UNCHANGED <<net, statuses, queue, post, syncPending, msgPending>>
  /\ UNCHANGED notWorker

\* what the page submits: a JSON body of a member, sent to the route with a
\* query string (the route answers it 201), and a body that is not JSON
\* (the route answers it 400)
Submissions ==
  {[method |-> "POST", text |-> JsonText(Body(1, 1, "help"), "spaced"),
    url |-> "/api/status?src=widget"],
   [method |-> "POST", text |-> RawText, url |-> "/api/status"]}

\* ------------------------------------------- cacheFirst and other requests
GetStarts(g) == gets[g].pc = "idle" /\ \A h \in 1..(g - 1) : gets[h].pc # "idle"

\* a fetch event that is no status submission: respondWith(cacheFirst(request))
\* for a same-origin GET; any other request is left to the browser, which
\* gets the server's answer or a network error
OnFetch(g, request) ==
  /\ GetStarts(g)
  /\ Route(request) # "handleStatusPost"
  /\ LET base == [GetIdle EXCEPT !.method = request.method, !.url = request.url,
                                 !.route = Route(request),
                                 !.had = cache[request.url]]
     IN IF Route(request) = "cacheFirst"
        THEN gets' = [gets EXCEPT ![g] = [base EXCEPT !.pc = "fetch"]]
        ELSE gets' = [gets EXCEPT ![g] = [base EXCEPT !.pc = "done",
                        !.resp = IF net = "up"
                                 THEN [from |-> "network", version |-> site]
                                 ELSE [from |-> "error", version |-> 0]]]
  /\ UNCHANGED <<cache, site>>
  /\ UNCHANGED notCache

\* const response = await fetch(request); a throw leads to the catch block
CacheFirst_Fetch(g) ==
  /\ gets[g].pc = "fetch"
  /\ IF net = "up"
     THEN gets' = [gets EXCEPT ![g].pc = "put",
                     ![g].resp = [from |-> "network", version |-> site]]
     ELSE gets' = [gets EXCEPT ![g].pc = "match"]
  /\ UNCHANGED <<cache, site>>
  /\ UNCHANGED notCache

\* await caches.open(SHELL_CACHE); cache.put(request, response.clone());
\* return response
CacheFirst_Put(g) ==
  /\ gets[g].pc = "put"
  /\ cache' = [cache EXCEPT ![gets[g].url] = {gets[g].resp.version}]
  /\ gets' = [gets EXCEPT ![g].pc = "done"]
  /\ UNCHANGED site
  /\ UNCHANGED notCache

\* catch: the cached response if there is one, else 503 { offline: true }
CacheFirst_Match(g) ==
  /\ gets[g].pc = "match"
  /\ IF cache[gets[g].url] # {}
     THEN \E v \in cache[gets[g].url] :
            gets' = [gets EXCEPT ![g].pc = "done",
                       ![g].resp = [from |-> "cache", version |-> v]]
     ELSE gets' = [gets EXCEPT ![g].pc = "done",
                     ![g].resp = [from |-> "offline", version |-> 0]]
  /\ UNCHANGED <<cache, site>>
  /\ UNCHANGED notCache

\* the server's content changes
Deploy ==
  /\ site < MaxSite
  /\ site' = site + 1
  /\ UNCHANGED <<cache, gets>>
  /\ UNCHANGED notCache

\* the requests of the page: the status submission, and requests with another
\* method, another path or another origin
Requests ==
  {[method |-> "POST", text |-> JsonText(Body(1, 1, "help"), "spaced"),
    url |-> "/api/status?src=widget"],
   [method |-> "GET", text |-> NoText, url |-> "/"],
   [method |-> "GET", text |-> NoText, url |-> "/api/status?circleId=1"],
   [method |-> "GET", text |-> NoText, url |-> "https://cdn.example/x.js"],
   [method |-> "POST", text |-> JsonText(Body(1, 1, "help"), "spaced"),
    url |-> "/"]}

InitSW ==
  /\ StatusStore
  /\ statuses = <<>>
  /\ now = 0
  /\ WorkerIdle
  /\ net = "up"
  /\ syncSupported \in BOOLEAN

NextSW ==
  \/ \E p \in PostIds, sub \in Submissions : HandleStatusPost_Fetch(p, sub)
  \/ \E p \in PostIds : HandleStatusPost_Enqueue(p)
  \/ \E p \in PostIds : HandleStatusPost_EnqueueFails(p)
  \/ \E p \in PostIds : HandleStatusPost_Register(p)
  \/ \E p \in PostIds : HandleStatusPost_RegisterFails(p)
  \/ NetDown
  \/ NetUp
  \/ \E f \in PassIds : OnSync(f)
  \/ \E f \in PassIds : OnMessage(f)
  \/ \E f \in PassIds : Flush_Fetch(f)
  \/ \E f \in PassIds : Flush_Delete(f)
  \/ \E f \in PassIds : Flush_DeleteFails(f)

\* the offline queue
SpecSW == InitSW /\ [][NextSW]_vars

\* the events the browser owes the worker are delivered, and a handler or a
\* flushQueue call that can take its next step takes it
FairSW ==
  /\ \A p \in PostIds : WF_vars(HandleStatusPost_Enqueue(p))
  /\ \A p \in PostIds : WF_vars(HandleStatusPost_Register(p))
  /\ WF_vars(\E f \in PassIds : OnSync(f))
  /\ WF_vars(\E f \in PassIds : OnMessage(f))
  /\ \A f \in PassIds : WF_vars(Flush_Fetch(f))
  /\ \A f \in PassIds : WF_vars(Flush_Delete(f))

\* the steps of the worker around one submission, the queue store carrying
\* out every delete
NextSWLive ==
  \/ \E sub \in Submissions : HandleStatusPost_Fetch(1, sub)
  \/ \E p \in PostIds : HandleStatusPost_Enqueue(p)
  \/ \E p \in PostIds : HandleStatusPost_EnqueueFails(p)
  \/ \E p \in PostIds : HandleStatusPost_Register(p)
  \/ \E p \in PostIds : HandleStatusPost_RegisterFails(p)
  \/ NetDown
  \/ NetUp
  \/ \E f \in PassIds : OnSync(f)
  \/ \E f \in PassIds : OnMessage(f)
  \/ \E f \in PassIds : Flush_Fetch(f)
  \/ \E f \in PassIds : Flush_Delete(f)

\* one submission, with the triggers delivered
SpecSWLive == InitSW /\ [][NextSWLive]_vars /\ FairSW

\* every request of the page passing the fetch listener, with one status
\* submission at most
NextCache ==
  \/ \E request \in Requests : HandleStatusPost_Fetch(1, request)
  \/ \E p \in PostIds : HandleStatusPost_Enqueue(p)
  \/ \E p \in PostIds : HandleStatusPost_Register(p)
  \/ \E g \in GetIds, request \in Requests : OnFetch(g, request)
  \/ \E g \in GetIds : CacheFirst_Fetch(g)
  \/ \E g \in GetIds : CacheFirst_Put(g)
  \/ \E g \in GetIds : CacheFirst_Match(g)
  \/ Deploy
  \/ NetDown
  \/ NetUp
  \/ \E f \in PassIds : OnSync(f)
  \/ \E f \in PassIds : OnMessage(f)
  \/ \E f \in PassIds : Flush_Fetch(f)
  \/ \E f \in PassIds : Flush_Delete(f)

SpecCache == InitSW /\ [][NextCache]_vars

AddKinds == {"add", "invite"}

\* C1: in every reachable state every circle has at most 5 rows in
\* circle_members, the owner's row included
CircleOfFive ==
  \A c \in CircleIds : Cardinality(MembersOf(c)) <= CircleLimit

\* C2: two add requests (direct or invite) for two different new members that
\* both passed their capacity check while the circle had 4 members, with no
\* other request around: exactly one ends with 201, the other with circle-full
RacingAddsOneWins ==
  \A r1 \in ReqIds : \A r2 \in ReqIds \ {r1} :
    ( /\ req[r1].pc = "done" /\ req[r2].pc = "done"
      /\ req[r1].kind \in AddKinds /\ req[r2].kind \in AddKinds
      /\ req[r1].circle = req[r2].circle
      /\ req[r1].member # req[r2].member
      /\ req[r1].count = CircleLimit - 1 /\ req[r2].count = CircleLimit - 1
      /\ \A q \in ReqIds \ {r1, r2} : req[q].pc = "idle" )
    => \/ req[r1].result = "201" /\ req[r2].result = "400full"
       \/ req[r1].result = "400full" /\ req[r2].result = "201"

\* C3: an add request (direct add by the owner, or invite) whose capacity
\* check finds 5 or more memberships ends with the circle-full error (400)
\* and leaves circle_members as it was
FullCircleStep(r) ==
  /\ req[r].pc \in {"add_count", "inv_count"}
  /\ req'[r] # req[r]
  /\ Cardinality(MembersOf(req[r].circle)) >= CircleLimit

AddToFullCircleFails ==
  [][\A r \in ReqIds :
       FullCircleStep(r) =>
         /\ req'[r].pc = "done"
         /\ req'[r].result = "400full"
         /\ circle_members' = circle_members]_vars

\* a lone add request to a circle of exactly 5 was answered circle-full
AddToFullCircleFailed ==
  \E r \in ReqIds :
    /\ req[r].pc = "done" /\ req[r].kind \in AddKinds
    /\ req[r].result = "400full"
    /\ Cardinality(MembersOf(req[r].circle)) = CircleLimit
    /\ \A q \in ReqIds \ {r} : req[q].pc = "idle"
\* ------------------------------------------------------------ C8 .. C10
\* row i is a row of user u in circle c inside the trailing 48 hours
RecentRowOf(i, u, c) ==
  /\ statuses[i].user_id = u
  /\ statuses[i].circle_id = c
  /\ now - statuses[i].created_at <= WindowHours

\* C8: the list GET /api/status returns has at most one entry per user id,
\* and each entry is a row of that user in that circle inside the 48-hour
\* window whose created_at no other such row of the user exceeds
ListsLatestPerUser ==
  [][\A r \in StatusReqIds :
       (sreq[r].pc = "get_query" /\ sreq'[r].pc = "done") =>
         LET out == sreq'[r].resp
             c == sreq[r].circle
         IN /\ \A i, j \in 1..Len(out) : i # j => out[i].id # out[j].id
            /\ \A i \in 1..Len(out) :
                 \E k \in 1..Len(statuses) :
                   /\ RecentRowOf(k, out[i].id, c)
                   /\ out[i].updatedAt = statuses[k].created_at
                   /\ out[i].status = statuses[k].status
                   /\ \A m \in 1..Len(statuses) :
                        RecentRowOf(m, out[i].id, c) =>
                          statuses[m].created_at <= statuses[k].created_at]_vars

\* a list was returned with the later of two rows of one user
ListedLaterOfTwo ==
  \E r \in StatusReqIds :
    /\ sreq[r].kind = "get" /\ sreq[r].result = "200"
    /\ \E e \in 1..Len(sreq[r].resp) : \E i, j \in 1..Len(statuses) :
         /\ statuses[i].user_id = sreq[r].resp[e].id
         /\ statuses[j].user_id = sreq[r].resp[e].id
         /\ statuses[i].circle_id = sreq[r].circle
         /\ statuses[j].circle_id = sreq[r].circle
         /\ statuses[i].created_at < statuses[j].created_at
         /\ sreq[r].resp[e].updatedAt = statuses[j].created_at

\* C9: a POST /api/status (with a body the schema accepts) whose userId has
\* no membership in circleId at the membership check ends with 403 and
\* appends no row to statuses
NonMemberPostRejected ==
  [][\A r \in StatusReqIds :
       ( /\ sreq[r].pc = "idle" /\ sreq'[r].kind = "post"
         /\ SchemaAccepts(sreq'[r].body)
         /\ ~IsMember(sreq'[r].body.circleId, sreq'[r].body.userId) )
       => /\ sreq'[r].pc = "done"
          /\ sreq'[r].result = "403"
          /\ statuses' = statuses]_vars

\* a profile without membership posted and was answered 403
NonMemberPosted ==
  \E r \in StatusReqIds :
    /\ sreq[r].kind = "post" /\ sreq[r].pc = "done" /\ sreq[r].result = "403"
    /\ ~IsMember(sreq[r].body.circleId, sreq[r].body.userId)

\* the submitted values the specification calls invalid
OutOfRange(b) ==
  \/ \E n \in b.note : TrimmedLen(n) > NoteMax
  \/ \E x \in b.batteryPct : x < BatteryMin \/ x > BatteryMax
  \/ \E x \in b.location.lat : x < 0 - 90 \/ x > 90
  \/ \E x \in b.location.lng : x < 0 - 180 \/ x > 180

\* C10: a POST /api/status whose note is longer than 240 characters, whose
\* batteryPct is outside [0,100] or whose location is outside [-90,90] x
\* [-180,180] is rejected with 400 and never gets as far as the insert
OutOfRangeRejected ==
  \A r \in StatusReqIds :
    (sreq[r].kind = "post" /\ OutOfRange(sreq[r].body)) =>
      (sreq[r].pc = "done" /\ sreq[r].result = "400")

\* ------------------------------------------------------------- C4 .. C7
\* two request texts with the same fields
SameFields(t1, t2) == t1.kind = t2.kind /\ t1.value = t2.value

\* C4: a handleStatusPost call whose fetch threw puts exactly one record
\* into the queue, under a key no record has, holding the body and the URL
\* of the request and leaving every other record alone, and ends with the
\* 202 { queued: true }
OfflinePostQueued ==
  [][\A p \in PostIds :
       /\ (post[p].pc = "enqueue" /\ post'[p].pc # "enqueue") =>
            \E rec \in queue' \ queue :
              /\ queue' = queue \cup {rec}
              /\ ~InQueue(rec.id)
              /\ rec.url = post[p].url
              /\ SameFields(JsonStringify(rec.body), post[p].text)
       /\ (post[p].pc \in {"enqueue", "register"} /\ post'[p].pc = "done") =>
            post'[p].resp = "202"]_vars

\* C5: a record leaves the queue only in the delete step of a flushQueue
\* call whose attempt of that record was answered 2xx, and when a flushQueue
\* call ends every record whose attempt failed in it is in the queue
LeavesOnlyDelivered ==
  [][/\ \A rec \in queue :
          rec \notin queue' =>
            \E f \in PassIds :
              /\ pass[f].pc = "delete" /\ pass'[f].pc # "delete"
              /\ Head(pass[f].todo).id = rec.id
              /\ pass[f].last.id = rec.id /\ Ok(pass[f].last.res)
     /\ \A f \in PassIds :
          (pass[f].pc # "idle" /\ pass'[f].pc = "idle") =>
            \A id \in pass'[f].kept : \E rec \in queue' : rec.id = id]_vars

\* C7: the request a flushQueue call sends for a record has the fields of
\* the text and the URL of the request the record was enqueued for
ReplaySendsOriginal ==
  \A f \in PassIds : \A p \in PostIds :
    (post[p].rec # 0 /\ pass[f].last.id = post[p].rec) =>
      /\ SameFields(pass[f].last.text, post[p].text)
      /\ pass[f].last.url = post[p].url

Accepted(id) ==
  \A rec \in queue : rec.id = id => Ok(RoutePost(JsonStringify(rec.body)))

ValidPostStep(r, echo) ==
  LET b == sreq'[r].body
  IN /\ (sreq[r].pc = "idle" /\ sreq'[r].kind = "post"
         /\ SchemaAccepts(b) /\ IsMember(b.circleId, b.userId))
        => sreq'[r].pc = "post_insert" /\ statuses' = statuses
     /\ (sreq[r].pc = "post_insert" /\ sreq'[r].pc # "post_insert")
        => /\ Len(statuses') = Len(statuses) + 1
           /\ SubSeq(statuses', 1, Len(statuses)) = statuses
           /\ statuses'[Len(statuses')].user_id = b.userId
           /\ statuses'[Len(statuses')].circle_id = b.circleId
           /\ statuses'[Len(statuses')].status = b.status
           /\ UNCHANGED <<profiles, circles, circle_members>>
           /\ sreq'[r].pc = "done" /\ sreq'[r].result = "201"
           /\ sreq'[r].ack.queued = FALSE
           /\ sreq'[r].ack.ackId # 0
           /\ sreq'[r].ack.receivedAt = statuses'[Len(statuses')].created_at
           /\ sreq'[r].ack.entry.status = b.status
           /\ sreq'[r].ack.entry.batteryPct = b.batteryPct
           /\ sreq'[r].ack.entry.location =
                (IF b.location.tag = "obj" THEN b.location ELSE NullLocation)
           /\ echo

\* C11 as stated: the entry of the acknowledgement carries the note as it
\* was submitted
ValidPostEchoed ==
  [][\A r \in StatusReqIds :
       ValidPostStep(r, /\ \A n \in sreq'[r].body.note : n.pad = 0
                        /\ sreq'[r].ack.entry.note =
                             {n.len : n \in sreq'[r].body.note})]_vars

\* C11: a POST /api/status the schema accepts, sent by a member of the
\* circle, appends exactly one row to statuses, changes no other table and
\* returns 201 with queued false, an ackId, receivedAt equal to the row's
\* created_at and an entry with the submitted status, location, batteryPct
\* and the submitted note without its leading and trailing whitespace
ValidPostAcked ==
  [][\A r \in StatusReqIds :
       ValidPostStep(r, sreq'[r].ack.entry.note =
                          {n.len - n.pad : n \in sreq'[r].body.note})]_vars

\* a member's submission with a note that ends in whitespace was stored and
\* acknowledged
PaddedNoteAcked ==
  \E r \in StatusReqIds :
    /\ sreq[r].kind = "post" /\ sreq[r].result = "201"
    /\ \E n \in sreq[r].body.note : n.pad > 0
    /\ Len(statuses) > 0

\* C12: when fetch reaches the server, handleStatusPost ends with the answer
\* of the route, whatever its status, and leaves the queue and the sync
\* registration as they were: no record is put for the request
AnswerPassedThrough ==
  [][\A p \in PostIds :
       (post[p].pc = "idle" /\ post'[p].pc # "idle" /\ net = "up") =>
         /\ post'[p].pc = "done"
         /\ post'[p].resp = RoutePost(post'[p].text)
         /\ post'[p].rec = 0
         /\ queue' = queue
         /\ syncPending' = syncPending]_vars

\* the route answered a request with a 4xx status while a record of an
\* earlier request was in the queue
ErrorAnswerPassed ==
  \E p \in PostIds :
    /\ post[p].pc = "done" /\ post[p].resp \in {"400", "403"}
    /\ post[p].rec = 0
    /\ \E q \in 1..(p - 1) : post[q].rec # 0 /\ InQueue(post[q].rec)

\* C13: a handleStatusPost call whose fetch threw (it did not end with an
\* answer of the route) ends with the 202 { queued: true }, never with a
\* rejection
OfflinePostResolves ==
  \A p \in PostIds :
    (post[p].pc = "done" /\ post[p].resp \notin {"201", "400", "403"}) =>
      post[p].resp = "202"

\* C14: the response handleStatusPost makes up for a queued submission has
\* status 202, queued true and the fields of the route's acknowledgement:
\* ackId, receivedAt, queued and entry
QueuedAckShaped ==
  \A p \in PostIds :
    (post[p].pc = "done" /\ post[p].rec # 0 /\ post[p].resp # "error") =>
      /\ post[p].resp = "202"
      /\ post[p].queued
      /\ {"ackId", "receivedAt", "queued", "entry"} \subseteq post[p].keys

\* record a was put into the queue before record b
EnqueuedBefore(a, b) ==
  \E p, q \in PostIds :
    post[p].rec = a /\ post[q].rec = b /\ post[p].nth < post[q].nth

\* C15: the records a flushQueue call has still to attempt are in the order
\* they were enqueued in: no record is attempted before a record that was
\* enqueued earlier
AttemptsInInsertionOrder ==
  \A f \in PassIds : \A i, j \in 1..Len(pass[f].todo) :
    i < j => ~EnqueuedBefore(pass[f].todo[j].id, pass[f].todo[i].id)

\* the keys of a sequence of records
IdsOf(recs) == [i \in 1..Len(recs) |-> recs[i].id]

\* C16: a flushQueue call attempts the records getAll gave it one after the
\* other, each once, whatever came of the earlier ones: while it runs there
\* is a record left to deal with, and in the step that ends it the attempts
\* made are exactly the records getAll returned
EveryRecordAttemptedOnce ==
  [][\A f \in PassIds :
       /\ pass'[f].pc # "idle" =>
            /\ pass'[f].todo # <<>>
            /\ \A i, j \in 1..Len(pass'[f].tried) :
                 i # j => pass'[f].tried[i] # pass'[f].tried[j]
       /\ (pass[f].pc # "idle" /\ pass'[f].pc = "idle") =>
            (IF pass[f].pc = "loop"
             THEN Append(pass[f].tried, Head(pass[f].todo).id)
             ELSE pass[f].tried) = IdsOf(pass[f].snap)]_vars

\* a flushQueue call went on to the second record after the attempt of the
\* first one failed
WentOnAfterFailure ==
  \E f \in PassIds :
    /\ Len(pass[f].snap) > 1
    /\ Len(pass[f].tried) > 1
    /\ pass[f].tried[1] \in pass[f].kept
\* C17: at most one flushQueue call is in progress at any time, whatever
\* triggers (sync event, flush message sent on the online event) arrive
\* while it runs
OneFlushAtATime ==
  \A f \in PassIds : \A g \in PassIds :
    (pass[f].pc # "idle" /\ pass[g].pc # "idle") => f = g


\* C18: when a POST /api/circles request completes, with 201 or with an
\* error, the circle row it inserted and the owner's membership row of that
\* circle either both exist or both do not
CreateCircleAtomic ==
  [][\A r \in ReqIds :
       (req[r].pc # "done" /\ req'[r].pc = "done" /\ req'[r].kind = "create")
       => ( (\E x \in circles' : x.id = req'[r].circle)
            <=> (\E m \in circle_members' :
                   /\ m.circle_id = req'[r].circle
                   /\ m.member_id = req'[r].member
                   /\ m.role = "owner") )]_vars

\* C19: a direct add to an existing circle whose requesterId is not the
\* circle's owner_id ends with 403 and leaves circle_members as it was,
\* whatever the member count and the new member
NonOwnerAddForbidden ==
  [][\A r \in ReqIds, c \in CircleIds, u \in Requesters, m \in ProfileIds :
       ( /\ AddMember_Lookup(r, c, u, m)
         /\ \E x \in circles : x.id = c /\ x.owner_id # u )
       => /\ req'[r].pc = "done"
          /\ req'[r].result = "403"
          /\ circle_members' = circle_members]_vars

\* a non-owner was refused on a full circle, and again on that circle with a
\* member that already belongs to it
NonOwnerRefusedOnFullCircle ==
  \E r \in ReqIds :
    /\ req[r].pc = "done" /\ req[r].kind = "add" /\ req[r].result = "403"
    /\ Cardinality(MembersOf(req[r].circle)) = CircleLimit
    /\ IsMember(req[r].circle, req[r].member)

\* the profile an add request is for: memberId of a direct add, the profile
\* found by the phone of an invite
AddTarget(q) ==
  IF q.member # 0 THEN q.member ELSE SingleProfileByPhone(q.phone)

\* C20: an add request (direct by the owner, or invite) that completes while
\* its profile already has a membership row in the circle ends with the
\* already-member error and leaves circle_members as it was, for every member
\* count and also when another add for the same profile ran beside it; and
\* no (circle, member) pair ever has two rows
AlreadyMemberRefused ==
  /\ [](\A m1 \in circle_members : \A m2 \in circle_members :
          (m1.circle_id = m2.circle_id /\ m1.member_id = m2.member_id)
          => m1 = m2)
  /\ [][\A r \in ReqIds :
          ( /\ req[r].pc # "done" /\ req'[r].pc = "done"
            /\ req'[r].kind \in AddKinds
            /\ req'[r].result # "403"
            /\ AddTarget(req'[r]) # 0
            /\ IsMember(req'[r].circle, AddTarget(req'[r])) )
          => /\ req'[r].result = "400already"
             /\ circle_members' = circle_members]_vars

OwnerAlwaysMember ==
  \A x \in circles :
    (\A r \in ReqIds :
       (req[r].kind = "create" /\ req[r].circle = x.id)
       => (req[r].pc = "done" /\ req[r].result = "201"))
    => {m \in circle_members : m.circle_id = x.id /\ m.role = "owner"}
         = {[circle_id |-> x.id, member_id |-> x.owner_id, role |-> "owner"]}

\* C23: whenever a handler (status submission or SMS webhook) appends rows to
\* statuses, every appended row is of a user that has a membership row in the
\* row's circle at the moment of the insert, whatever removals run beside it
RowsOfMembersOnly ==
  [][\A i \in (Len(statuses) + 1)..Len(statuses') :
       IsMember(statuses'[i].circle_id, statuses'[i].user_id)]_vars

\* C24: no step of a status submission, a listing, the SMS webhook or a
\* removal changes or removes a row of statuses: the rows present before a
\* step are the first rows after it, unchanged
StatusesAppendOnly ==
  [][ /\ Len(statuses') >= Len(statuses)
      /\ \A i \in 1..Len(statuses) : statuses'[i] = statuses[i] ]_vars

\* a submission and an SMS command both appended to a store that already had
\* a row of the SMS sender, and a listing and a removal ran as well
AppendedByBoth ==
  /\ \E r \in StatusReqIds : sreq[r].kind = "post" /\ sreq[r].result = "201"
  /\ \E r \in StatusReqIds : sreq[r].kind = "get" /\ sreq[r].result = "200"
  /\ \E r \in ReqIds : req[r].kind = "remove" /\ req[r].result = "200"
  /\ \E r \in SmsIds :
       /\ sms[r].result = "updated"
       /\ \E i \in 1..Len(statuses) :
            i \notin sms[r].rows /\ statuses[i].user_id = sms[r].user
                                 /\ \A j \in sms[r].rows : i < j

\* C25: a completed GET /api/status whose userId has no membership row in
\* circleId was answered 403 and its response carries no status entry
NonMemberListRefused ==
  \A r \in StatusReqIds :
    ( /\ sreq[r].pc = "done" /\ sreq[r].kind = "get"
      /\ ~IsMember(sreq[r].circle, sreq[r].user) )
    => sreq[r].result = "403" /\ sreq[r].resp = <<>>

\* a profile outside the circle asked for a circle that has a row inside the
\* window
NonMemberAskedForRows ==
  \E r \in StatusReqIds :
    /\ sreq[r].pc = "done" /\ sreq[r].kind = "get"
    /\ ~IsMember(sreq[r].circle, sreq[r].user)
    /\ WindowRows(sreq[r].circle, now) # {}

\* C26: the user ids in the result of a GET /api/status are exactly the
\* users with at least one row of that circle created within the 48 hours
\* before the query: no entry for a member without such a row, none from
\* older rows or rows of other circles
ListsExactlyRecentUsers ==
  [][\A r \in StatusReqIds :
       (sreq[r].pc = "get_query" /\ sreq'[r].pc = "done")
       => {sreq'[r].resp[i].id : i \in 1..Len(sreq'[r].resp)}
            = {statuses[k].user_id :
                 k \in {j \in 1..Len(statuses) :
                          /\ statuses[j].circle_id = sreq[r].circle
                          /\ now - statuses[j].created_at <= WindowHours}}]_vars

\* a listing gave an entry for one user and none for a member whose only row
\* is more than 48 hours older than the listed one
OldRowNotListed ==
  \E r \in StatusReqIds :
    /\ sreq[r].pc = "done" /\ sreq[r].kind = "get" /\ sreq[r].result = "200"
    /\ Len(sreq[r].resp) = 1
    /\ \E j \in 1..Len(statuses) :
         /\ statuses[j].circle_id = sreq[r].circle
         /\ IsMember(sreq[r].circle, statuses[j].user_id)
         /\ statuses[j].user_id # sreq[r].resp[1].id
         /\ statuses[j].created_at + WindowHours < sreq[r].resp[1].updatedAt

\* C27: the entry a GET /api/status gives for a user is made from the user's
\* row of that circle that comes last in insertion order among the user's
\* rows with the greatest created_at, whatever order the store hands rows of
\* equal created_at back in
TieGoesToLaterRow ==
  [][\A r \in StatusReqIds :
       (sreq[r].pc = "get_query" /\ sreq'[r].pc = "done")
       => \A i \in 1..Len(sreq'[r].resp) :
            LET u == sreq'[r].resp[i].id
                mine == {j \in 1..Len(statuses) :
                           /\ statuses[j].circle_id = sreq[r].circle
                           /\ statuses[j].user_id = u}
                last == CHOOSE j \in mine :
                          \A k \in mine :
                            \/ statuses[k].created_at < statuses[j].created_at
                            \/ /\ statuses[k].created_at = statuses[j].created_at
                               /\ k <= j
            IN sreq'[r].resp[i] = StatusEntry(statuses[last], sreq[r].user)]_vars

\* C28: an SMS whose first word is SAFE or HELP (in any case) and whose
\* second word is the PIN of exactly one user u goes on, and when it completes
\* it has appended one row of that kind and of u for each circle u is a
\* member of, or (insert failure) no row; any other SMS (unknown command, no
\* PIN, PIN of no single user) completes at once; and no other step changes
\* statuses
SmsAppendsPerCircle ==
  [][ /\ \A r \in SmsIds :
           (sms[r].pc = "idle" /\ sms'[r].pc # "idle")
           => LET parts == sms'[r].parts
                  known == Len(parts) >= 2 /\ parts[1] \in {"SAFE", "HELP"}
                  users == IF Len(parts) >= 2
                           THEN {t.user_id : t \in
                                   {x \in sms_triggers : x.pin_code = parts[2]}}
                           ELSE {}
              IN /\ statuses' = statuses
                 /\ IF known /\ Cardinality(users) = 1
                    THEN /\ sms'[r].pc # "done"
                         /\ sms'[r].user \in users
                         /\ sms'[r].command =
                              (IF parts[1] = "SAFE" THEN "safe" ELSE "help")
                    ELSE sms'[r].pc = "done"
      /\ \A r \in SmsIds :
           (sms[r].pc \notin {"idle", "done"} /\ sms'[r].pc = "done")
           => LET new == (Len(statuses) + 1)..Len(statuses')
                  mine == {c \in StatusCircles : IsMember(c, sms[r].user)}
              IN /\ \A i \in 1..Len(statuses) : statuses'[i] = statuses[i]
                 /\ \/ new = {}
                    \/ /\ Cardinality(new) = Cardinality(mine)
                       /\ {statuses'[i].circle_id : i \in new} = mine
                       /\ \A i \in new :
                            /\ statuses'[i].user_id = sms[r].user
                            /\ statuses'[i].status = sms[r].command
                 /\ (new = {}) <=> (mine = {} \/ sms'[r].result = "failed")
      /\ (\A r \in SmsIds : sms'[r].pc = "done" => sms[r].pc = "done")
           => statuses' = statuses ]_vars

\* a lower-case HELP with coordinates of the member of two circles added two
\* rows, while another SMS was turned down or its insert failed
SmsReachedBothCircles ==
  \E r \in SmsIds : \E q \in SmsIds \ {r} :
    /\ sms[r].result = "updated" /\ sms[r].command = "help"
    /\ Cardinality(sms[r].rows) = 2
    /\ {statuses[i].circle_id : i \in sms[r].rows} = {1, 2}
    /\ \A i \in sms[r].rows : statuses[i].lat = {1} /\ statuses[i].status = "help"
    /\ sms[q].result \in {"format", "pin", "failed"}

\* C29: a same-origin GET whose url had a cache entry when the event arrived
\* is answered with that cached response, without the network being asked
\* first, whether the network is reachable or not
CachedServedFirst ==
  \A g \in GetIds :
    (gets[g].pc = "done" /\ gets[g].route = "cacheFirst" /\ gets[g].had # {})
    => gets[g].resp.from = "cache" /\ gets[g].resp.version \in gets[g].had

\* C30: a step changes the queue only when it is the put of a
\* handleStatusPost call for a request with method POST and path /api/status
\* (one record added) or a delete of flushQueue (one record removed); no step
\* of a GET or of a POST to another path changes it
QueueOnlyByStatusPosts ==
  [][ /\ queue' # queue
         => \/ \E p \in PostIds :
                 /\ post[p].pc = "enqueue" /\ post'[p].pc = "register"
                 /\ post[p].method = "POST"
                 /\ post[p].url \in {"/api/status", "/api/status?src=widget"}
                 /\ \E rec \in queue' \ queue :
                      queue' = queue \cup {rec} /\ rec.url = post[p].url
            \/ \E f \in PassIds :
                 /\ pass[f].pc = "delete" /\ pass'[f].pc # "delete"
                 /\ \E rec \in queue : queue' = queue \ {rec}
      /\ gets' # gets => queue' = queue ]_vars

\* with a submission in the queue, a GET of the status path and a POST to
\* another path were made while the network was out of reach
OthersWhileQueued ==
  /\ queue # {}
  /\ \E g \in GetIds :
       /\ gets[g].pc = "done" /\ gets[g].method = "GET"
       /\ gets[g].url = "/api/status?circleId=1"
       /\ gets[g].resp.from = "offline"
  /\ \E g \in GetIds :
       /\ gets[g].pc = "done" /\ gets[g].method = "POST"
       /\ gets[g].resp.from = "error"


\* ------------------------------------------- POST /api/auth/verify-link
notVerify == <<circles, circle_members, req, statusVars, swVars, store, clock,
               usage, rcall, sms_triggers, preq, ereq, production>>
\* the tokens the requests carry: the two issued and one never issued
VerifyTokens == {"token-of-user-1", "token-of-user-2", "token-never-issued-00"}
LinksByToken(token) == {l \in magic_links : l.token = token}
VerifyStarts(r) ==
  /\ vreq[r].pc = "idle"
  /\ \A q \in VerifyIds : q < r => vreq[q].pc # "idle"
VerifyFinish(r, code) ==
  vreq' = [vreq EXCEPT ![r].pc = "done", ![r].result = code, ![r].at = now]

\* .from("magic_links").select(...).eq("token", token).single(), then the
\* checks of expires_at and consumed_at on the row that was read
Verify_Lookup(r, token) ==
  /\ VerifyStarts(r)
  /\ LET found == LinksByToken(token)
         base == [VerifyIdle EXCEPT !.token = token]
     IN IF Cardinality(found) # 1
        THEN vreq' = [vreq EXCEPT ![r] = [base EXCEPT !.pc = "done",
                                            !.result = "401", !.at = now]]
        ELSE LET magicLink == CHOOSE l \in found : TRUE
             IN IF magicLink.expires_at < now \/ magicLink.consumed_at # {}
                THEN vreq' = [vreq EXCEPT ![r] = [base EXCEPT !.pc = "done",
                                    !.result = "401", !.at = now]]
                ELSE vreq' = [vreq EXCEPT ![r] = [base EXCEPT !.pc = "consume",
                                    !.link = magicLink.id,
                                    !.user = magicLink.user_id]]
  /\ UNCHANGED <<magic_links, profiles>>
  /\ UNCHANGED notVerify

\* .update({ consumed_at: new Date().toISOString() }).eq("id", magicLink.id)
Verify_Consume(r) ==
  /\ vreq[r].pc = "consume"
  /\ magic_links' = {IF l.id = vreq[r].link
                     THEN [l EXCEPT !.consumed_at = {now}] ELSE l :
                     l \in magic_links}
  /\ vreq' = [vreq EXCEPT ![r].pc = "profile"]
  /\ UNCHANGED profiles
  /\ UNCHANGED notVerify

\* .from("profiles").select(...).eq("id", magicLink.user_id).single()
Verify_Profile(r) ==
  /\ vreq[r].pc = "profile"
  /\ IF Cardinality({p \in profiles : p.id = vreq[r].user}) = 1
     THEN VerifyFinish(r, "200")
     ELSE VerifyFinish(r, "500")
  /\ UNCHANGED <<magic_links, profiles>>
  /\ UNCHANGED notVerify

NextVerify ==
  \/ \E r \in VerifyIds, token \in VerifyTokens : Verify_Lookup(r, token)
  \/ \E r \in VerifyIds : Verify_Consume(r)
  \/ \E r \in VerifyIds : Verify_Profile(r)
  \/ Tick

SpecVerify == InitSubmit /\ [][NextVerify]_vars

Succeeded(token) == {r \in VerifyIds : vreq[r].token = token /\ vreq[r].result = "200"}

\* C31: a magic-link token is single-use: of the verify-link requests that
\* carry the same token at most one returns success, and none returns
\* success after the link's expires_at
TokenSingleUse ==
  \A l \in magic_links :
    /\ Cardinality(Succeeded(l.token)) <= 1
    /\ \A r \in Succeeded(l.token) : vreq[r].at <= l.expires_at

\* two requests with the same token both returned success
TokenUsedTwice == \E l \in magic_links : Cardinality(Succeeded(l.token)) = 2

\* ------------------------------------------------------- checkRateLimit
notLimiter == <<circleVars, statusVars, swVars, magic_links, vreq, sms_triggers,
                preq, ereq, production>>
\* the presets the model calls with; windowMs is in minutes
RateLimits(c) ==
  CASE c = "AUTH" -> [maxRequests |-> 5, windowMs |-> 15]
    [] c = "PROFILE" -> [maxRequests |-> 10, windowMs |-> 1]

\* checkRateLimit that tests the count it found, before counting the call
checkRateLimit_TestsOldCount(identifier, c) ==
  /\ store[identifier] # {} =>
       (CHOOSE e \in store[identifier] : TRUE).count < MaxCount
  /\ LET config == RateLimits(c)
         now_ == clock
         old == store[identifier]
         expired == old = {} \/ (CHOOSE e \in old : TRUE).resetTime < now_
         entry == IF expired
                  THEN [count |-> 1, resetTime |-> now_ + config.windowMs]
                  ELSE [count |-> (CHOOSE e \in old : TRUE).count + 1,
                        resetTime |-> (CHOOSE e \in old : TRUE).resetTime]
         allowed == expired \/ ~((CHOOSE e \in old : TRUE).count > config.maxRequests)
         was == IF expired THEN [k \in ConfigNames |-> NoUsage]
                ELSE usage[identifier]
     IN /\ store' = [store EXCEPT ![identifier] = {entry}]
        /\ rcall' = [identifier |-> identifier, config |-> c,
                     opened |-> expired, allowed |-> allowed,
                     remaining |-> IF allowed
                                   THEN config.maxRequests - entry.count ELSE 0,
                     resetTime |-> entry.resetTime]
        /\ usage' = [usage EXCEPT ![identifier] =
                       [was EXCEPT ![c] =
                          IF allowed THEN [@ EXCEPT !.allowed = @ + 1]
                          ELSE [@ EXCEPT !.denied = TRUE]]]
  /\ UNCHANGED clock
  /\ UNCHANGED notLimiter

\* checkRateLimit(identifier, config): the entry is opened anew when there is
\* none or its resetTime has passed, else the call is counted and refused
\* once the count is over maxRequests
checkRateLimit(identifier, c) ==
  /\ store[identifier] # {} =>
       (CHOOSE e \in store[identifier] : TRUE).count < MaxCount
  /\ LET config == RateLimits(c)
         now_ == clock
         old == store[identifier]
         expired == old = {} \/ (CHOOSE e \in old : TRUE).resetTime < now_
         entry == IF expired
                  THEN [count |-> 1, resetTime |-> now_ + config.windowMs]
                  ELSE [count |-> (CHOOSE e \in old : TRUE).count + 1,
                        resetTime |-> (CHOOSE e \in old : TRUE).resetTime]
         allowed == expired \/ ~(entry.count > config.maxRequests)
         was == IF expired THEN [k \in ConfigNames |-> NoUsage]
                ELSE usage[identifier]
     IN /\ store' = [store EXCEPT ![identifier] = {entry}]
        /\ rcall' = [identifier |-> identifier, config |-> c,
                     opened |-> expired, allowed |-> allowed,
                     remaining |-> IF allowed
                                   THEN config.maxRequests - entry.count ELSE 0,
                     resetTime |-> entry.resetTime]
        /\ usage' = [usage EXCEPT ![identifier] =
                       [was EXCEPT ![c] =
                          IF allowed THEN [@ EXCEPT !.allowed = @ + 1]
                          ELSE [@ EXCEPT !.denied = TRUE]]]
  /\ UNCHANGED clock
  /\ UNCHANGED notLimiter

\* the setInterval callback: entries whose resetTime has passed are deleted
Cleanup ==
  /\ \E i \in Identifiers : \E e \in store[i] : e.resetTime < clock
  /\ store' = [i \in Identifiers |->
                 {e \in store[i] : ~(e.resetTime < clock)}]
  /\ UNCHANGED <<clock, usage, rcall>>
  /\ UNCHANGED notLimiter

\* Date.now() advances
Minutes ==
  /\ clock + MinuteStep <= MaxMinute
  /\ clock' = clock + MinuteStep
  /\ UNCHANGED <<store, usage, rcall>>
  /\ UNCHANGED notLimiter

\* a signed-in client calls the sign-in and the profile endpoints, a client
\* known by its address only the sign-in endpoints
Callers == {<<"user:1", "AUTH">>, <<"user:1", "PROFILE">>, <<"ip:1", "AUTH">>}

NextLimiter ==
  \/ \E k \in Callers : checkRateLimit(k[1], k[2])
  \/ Cleanup
  \/ Minutes

SpecLimiter == InitSubmit /\ [][NextLimiter]_vars

\* the entry of an identifier that has one
Entry(st, i) == CHOOSE e \in st[i] : TRUE
\* the step is a checkRateLimit call for identifier i with config c
Called(i, c) ==
  /\ store'[i] # {} /\ store'[i] # store[i]
  /\ rcall'.identifier = i /\ rcall'.config = c
\* the call of the step falls in the window that is open for i
InWindow(i) == store[i] # {} /\ ~(Entry(store, i).resetTime < clock)

\* C32: for every identifier and config, of the calls from the one that
\* opens a window until resetTime at most maxRequests are allowed and every
\* later call in the window is refused; a refused call leaves resetTime as
\* it is, and the first call after resetTime is allowed again
RateLimitHolds ==
  /\ [](\A i \in Identifiers, c \in ConfigNames :
          usage[i][c].allowed <= RateLimits(c).maxRequests)
  /\ [][\A i \in Identifiers, c \in ConfigNames :
          Called(i, c) =>
            /\ (InWindow(i) /\ (usage[i][c].denied
                                \/ usage[i][c].allowed = RateLimits(c).maxRequests))
                 => ~rcall'.allowed
            /\ ~rcall'.allowed
                 => /\ store[i] # {}
                    /\ Entry(store', i).resetTime = Entry(store, i).resetTime
                    /\ rcall'.resetTime = Entry(store, i).resetTime
            /\ (store[i] # {} /\ Entry(store, i).resetTime < clock)
                 => /\ rcall'.allowed
                    /\ Entry(store', i).resetTime
                         = clock + RateLimits(c).windowMs]_vars

\* a client's window opened after minute 0 by a sign-in call has been used
\* up: maxRequests sign-in calls were allowed and the last call was refused
RefusedThenAllowedAgain ==
  \E i \in Identifiers :
    /\ store[i] # {} /\ Entry(store, i).resetTime > RateLimits("AUTH").windowMs
    /\ usage[i]["AUTH"].allowed = RateLimits("AUTH").maxRequests
    /\ usage[i]["AUTH"].denied
    /\ rcall.identifier = i /\ ~rcall.allowed

\* -------------------------------------------------- HTTP 500 responses
notSend == <<circles, circle_members, req, statusVars, swVars, vreq, store,
             clock, usage, rcall, sms_triggers, preq, production>>
\* the message of an error the store or the runtime raised
InternalMessages == {"connect ECONNREFUSED db.internal:5432"}
Json(error) == [error |-> error, details |-> {}]

\* createErrorResponse(message, statusCode, devDetails): the details field
\* is left out in production
createErrorResponse(message, statusCode, devDetails) ==
  [status |-> statusCode,
   body |-> [error |-> message,
             details |-> IF production THEN {} ELSE {devDetails}]]

SendStarts(r) ==
  /\ ereq[r].pc = "idle"
  /\ \A q \in SendIds : q < r => ereq[q].pc # "idle"
Respond(r, status, body) ==
  ereq' = [ereq EXCEPT ![r].pc = "done", ![r].status = status, ![r].body = body]
ProfilesByEmail(email) == {x \in profiles : x.email = email}
\* nanoid(32) for the link row with this id
FreshToken(id) ==
  CASE id = 3 -> "token-made-third-0000"
    [] id = 4 -> "token-made-fourth-000"
    [] OTHER -> "token-made-later-0000"

\* POST /api/auth/send-link: .from("profiles").select("id").eq("email",
\* email).single(); no row (PGRST116) leads to the insert of a profile
SendLink_Lookup(r, email) ==
  /\ SendStarts(r)
  /\ LET base == [SendIdle EXCEPT !.route = "send-link", !.email = email]
         found == ProfilesByEmail(email)
     IN IF Cardinality(found) = 1
        THEN ereq' = [ereq EXCEPT ![r] = [base EXCEPT !.pc = "link",
                                !.user = (CHOOSE x \in found : TRUE).id]]
        ELSE ereq' = [ereq EXCEPT ![r] = [base EXCEPT !.pc = "create"]]
  /\ UNCHANGED <<profiles, magic_links>>
  /\ UNCHANGED notSend

\* the lookup fails with another error: "throw lookupError", and the catch
\* answers { error: "Database error", details: dbError.message }
SendLink_LookupFails(r, email, message) ==
  /\ SendStarts(r)
  /\ ereq' = [ereq EXCEPT ![r] = [SendIdle EXCEPT !.route = "send-link",
                 !.email = email, !.pc = "done", !.status = "500",
                 !.body = [error |-> "Database error", details |-> {message}]]]
  /\ UNCHANGED <<profiles, magic_links>>
  /\ UNCHANGED notSend

\* .from("profiles").insert({ email }).select("id").single()
SendLink_Create(r) ==
  /\ ereq[r].pc = "create"
  /\ Cardinality(profiles) < MaxProfiles
  /\ profiles' = profiles \cup {[id |-> NextProfileId, email |-> ereq[r].email,
                                 phone |-> NoPhone]}
  /\ ereq' = [ereq EXCEPT ![r].pc = "link", ![r].user = NextProfileId]
  /\ UNCHANGED magic_links
  /\ UNCHANGED notSend

SendLink_CreateFails(r) ==
  /\ ereq[r].pc = "create"
  /\ Respond(r, "500", Json("Failed to create profile"))
  /\ UNCHANGED <<profiles, magic_links>>
  /\ UNCHANGED notSend

\* .from("magic_links").insert({ user_id, token, expires_at })
SendLink_Store(r) ==
  /\ ereq[r].pc = "link"
  /\ LET id == Cardinality(magic_links) + 1
     IN magic_links' = magic_links \cup
          {[id |-> id, token |-> FreshToken(id), user_id |-> ereq[r].user,
            expires_at |-> now + LinkHours, consumed_at |-> {}]}
  /\ Respond(r, "200", NoBodyJson)
  /\ UNCHANGED profiles
  /\ UNCHANGED notSend

SendLink_StoreFails(r) ==
  /\ ereq[r].pc = "link"
  /\ Respond(r, "500", Json("Failed to create magic link"))
  /\ UNCHANGED <<profiles, magic_links>>
  /\ UNCHANGED notSend

\* GET /api/monitoring/health: the checks are answered with 200 or 503
Health(r, healthy) ==
  /\ SendStarts(r)
  /\ ereq' = [ereq EXCEPT ![r] = [SendIdle EXCEPT !.route = "health",
                 !.pc = "done", !.status = IF healthy THEN "200" ELSE "503"]]
  /\ UNCHANGED <<profiles, magic_links>>
  /\ UNCHANGED notSend

\* the handler throws: createErrorResponse("Health check failed", 500, error)
Health_Throws(r, message) ==
  /\ SendStarts(r)
  /\ LET res == createErrorResponse("Health check failed", "500", message)
     IN ereq' = [ereq EXCEPT ![r] = [SendIdle EXCEPT !.route = "health",
                   !.pc = "done", !.status = res.status, !.body = res.body]]
  /\ UNCHANGED <<profiles, magic_links>>
  /\ UNCHANGED notSend

\* a deployment in production mode or not
InitErrors ==
  /\ StatusTables
  /\ AuthTables
  /\ production \in BOOLEAN
  /\ WorkerOff
  /\ statuses = <<>>
  /\ now = 0

NextErrors ==
  \/ \E r \in SendIds, email \in Emails : SendLink_Lookup(r, email)
  \/ \E r \in SendIds, email \in Emails, m \in InternalMessages :
        SendLink_LookupFails(r, email, m)
  \/ \E r \in SendIds : SendLink_Create(r)
  \/ \E r \in SendIds : SendLink_CreateFails(r)
  \/ \E r \in SendIds : SendLink_Store(r)
  \/ \E r \in SendIds : SendLink_StoreFails(r)
  \/ \E r \in SendIds, healthy \in BOOLEAN : Health(r, healthy)
  \/ \E r \in SendIds, m \in InternalMessages : Health_Throws(r, m)
  \/ Tick

SpecErrors == InitErrors /\ [][NextErrors]_vars

\* C33: in production mode every 500 response carries a generic message
\* only: its body has no details and its error is not an internal message
NoInternalDetailIn500 ==
  production =>
    \A r \in SendIds :
      ereq[r].status = "500" =>
        /\ ereq[r].body.details = {}
        /\ ereq[r].body.error \notin InternalMessages

\* in production the health check answered 500 through createErrorResponse
\* and send-link answered 500 from its catch of the database error
BothAnswered500 ==
  /\ production
  /\ \E r \in SendIds : ereq[r].route = "health" /\ ereq[r].status = "500"
  /\ \E r \in SendIds : ereq[r].route = "send-link" /\ ereq[r].status = "500"
                        /\ ereq[r].body.error = "Database error"

\* the submissions the page has made that the route accepts
AcceptedPosts == {p \in PostIds : post[p].pc # "idle" /\ Ok(RoutePost(post[p].text))}

\* C34: each queued submission produces at most one status row: whatever
\* the interleaving of the flush passes, and also when the delete of a
\* delivered record fails, no record is delivered with success more than
\* once, so there are never more rows than submissions
OneRowPerSubmission == Len(statuses) <= Cardinality(AcceptedPosts)

\* ------------------------------------- replayed submissions, then the list
\* what the page submits while offline: member 1 of circle 1 reports "safe"
\* or "help"
ReplaySubmissions ==
  {[method |-> "POST", text |-> JsonText(Body(1, 1, st), "spaced"),
    url |-> "/api/status"] : st \in {"safe", "help"}}

\* the page submits one report after the other
Submit(p, sub) ==
  /\ \A q \in 1..(p - 1) : post[q].pc = "done"
  /\ HandleStatusPost_Fetch(p, sub)

NextReplay ==
  \/ \E p \in PostIds, sub \in ReplaySubmissions : Submit(p, sub)
  \/ \E p \in PostIds : HandleStatusPost_Enqueue(p)
  \/ \E p \in PostIds : HandleStatusPost_Register(p)
  \/ NetDown
  \/ NetUp
  \/ OnMessage(1)
  \/ Flush_Fetch(1)
  \/ Flush_Delete(1)
  \/ GetStatus_Check(1, 1, 1)
  \/ GetStatus_Query(1)
  \/ Tick

\* a browser without background sync: the passes are started by the page's
\* message, one at a time
InitReplay == InitSW /\ syncSupported = FALSE

SpecReplay == InitReplay /\ [][NextReplay]_vars

\* several submissions were made offline and all of them have been replayed
AllReplayed ==
  /\ \A p \in PostIds : post[p].pc = "done" /\ post[p].queued
  /\ queue = {}
  /\ \A f \in PassIds : pass[f].pc = "idle"
  /\ Len(statuses) >= NumPosts
\* the status of the submission made last
LastSubmitted == safeReadJson(post[NumPosts].text).value.status

\* C35: once several offline submissions have all been replayed, the entry
\* GET /api/status lists for the user carries the status submitted last
ReplayKeepsLatest ==
  [][\A r \in StatusReqIds :
       (AllReplayed /\ sreq[r].pc = "get_query" /\ sreq'[r].pc = "done") =>
         \A i \in 1..Len(sreq'[r].resp) :
           sreq'[r].resp[i].id = 1 => sreq'[r].resp[i].status = LastSubmitted]_vars

\* the location a listing shows for a submitted location
Listed(location) == IF location.tag = "obj" THEN location ELSE NullLocation

\* C36: a submission that was stored and is then listed keeps its values,
\* batteryPct 0, lat 0, lng 0 and accuracy 0 included: the row holds the
\* submitted values, and the entry GET /api/status lists for the user has
\* the submitted location and batteryPct
SubmitListRoundTrip ==
  \A r \in StatusReqIds :
    (sreq[r].kind = "post" /\ sreq[r].result = "201") =>
      LET b == sreq[r].body
          row == statuses[sreq[r].ack.statusId]
      IN /\ row.battery_pct = b.batteryPct
         /\ row.lat = b.location.lat /\ row.lng = b.location.lng
         /\ row.accuracy_m = b.location.accuracy
         /\ \A g \in StatusReqIds :
              (sreq[g].kind = "get" /\ sreq[g].result = "200"
               /\ Len(statuses) = 1) =>
                \A i \in 1..Len(sreq[g].resp) :
                  /\ sreq[g].resp[i].batteryPct = b.batteryPct
                  /\ sreq[g].resp[i].location = Listed(b.location)

\* --------------------------------------------------- POST /api/sms/pin
notPin == <<circleVars, statusVars, swVars, magic_links, vreq, store, clock,
            usage, rcall, ereq, production>>
\* generatePIN(): Math.floor(100000 + Math.random() * 900000).toString(),
\* a few of its values
Pins == {"111111", "222222", "999999"}
\* the users that ask for a PIN: two that have one and one that has none
PinUsers == {1, 2, 6}
PinStarts(r) ==
  /\ preq[r].pc = "idle"
  /\ \A q \in PinIds : q < r => preq[q].pc # "idle"
TriggersOf(u) == {t \in sms_triggers : t.user_id = u}

\* const newPin = generatePIN(); then .from("sms_triggers").select("user_id")
\* .eq("user_id", userId).single()
Pin_Lookup(r, u, newPin) ==
  /\ PinStarts(r)
  /\ preq' = [preq EXCEPT ![r] = [PinIdle EXCEPT !.user = u, !.newPin = newPin,
                !.existing = (TriggersOf(u) # {}),
                !.pc = IF TriggersOf(u) # {} THEN "update" ELSE "insert"]]
  /\ UNCHANGED sms_triggers
  /\ UNCHANGED notPin

\* .update({ pin_code: newPin, last_rotated_at }).eq("user_id", userId)
Pin_Update(r) ==
  /\ preq[r].pc = "update"
  /\ sms_triggers' = {IF t.user_id = preq[r].user
                      THEN [t EXCEPT !.pin_code = preq[r].newPin] ELSE t :
                      t \in sms_triggers}
  /\ preq' = [preq EXCEPT ![r].pc = "done", ![r].result = "200",
                          ![r].pinCode = preq[r].newPin]
  /\ UNCHANGED notPin

\* .insert({ user_id, pin_code: newPin, last_rotated_at }): the primary key
\* user_id rejects a second row of the user
Pin_Insert(r) ==
  /\ preq[r].pc = "insert"
  /\ IF TriggersOf(preq[r].user) # {}
     THEN /\ preq' = [preq EXCEPT ![r].pc = "done", ![r].result = "500"]
          /\ UNCHANGED sms_triggers
     ELSE /\ sms_triggers' = sms_triggers \cup
                               {[user_id |-> preq[r].user,
                                 pin_code |-> preq[r].newPin]}
          /\ preq' = [preq EXCEPT ![r].pc = "done", ![r].result = "200",
                                  ![r].pinCode = preq[r].newPin]
  /\ UNCHANGED notPin

\* the table while every user's PIN is their own
InitPin ==
  /\ StatusTables
  /\ AuthRequests
  /\ sms_triggers = {t \in SmsTriggers : t.user_id \in {1, 2, 3}}
  /\ production = TRUE
  /\ WorkerOff
  /\ statuses = <<>>
  /\ now = 0

NextPin ==
  \/ \E r \in PinIds, u \in PinUsers, newPin \in Pins : Pin_Lookup(r, u, newPin)
  \/ \E r \in PinIds : Pin_Update(r)
  \/ \E r \in PinIds : Pin_Insert(r)

SpecPin == InitPin /\ [][NextPin]_vars

\* C37: a PIN identifies at most one user: whatever PIN requests were
\* served, no two rows of sms_triggers hold the same pin_code
PinIdentifiesOneUser ==
  \A t1, t2 \in sms_triggers : t1.pin_code = t2.pin_code => t1.user_id = t2.user_id

\* the members of circle c whose profile has this phone
MembersByPhone(c, ph) ==
  {m \in MembersOf(c) : \E p \in ProfilesByPhone(ph) : p.id = m.member_id}

\* C38: invite-by-contact is find-or-create per phone: whatever the order
\* and interleaving of the invites, there is at most one profile row per
\* phone, and no circle has the person of a phone as a member twice
OneProfilePerPhone ==
  \A ph \in Phones :
    /\ Cardinality(ProfilesByPhone(ph)) <= 1
    /\ \A c \in CircleIds : Cardinality(MembersByPhone(c, ph)) <= 1
====
